---------------------------- MODULE Spec2Model ----------------------------
(***************************************************************************)
(* ThinkShell: the agent decision loop (src/llm/openaiintegrator.py), its  *)
(* safety gate, the shell snippets it returns, and the command-not-found   *)
(* entry point (src/controller/thinkshellctl.py, src/llm_engine.py), and   *)
(* the terminal proxy (src/main.py, src/io_loop.py, src/signals.py).       *)
(*                                                                         *)
(* Spec is the agent loop, SpecCtl the hook with the entry point, and      *)
(* SpecProxy the proxy; each leaves the variables of the others alone.     *)
(*                                                                         *)
(* Texts.  A text is a sequence of strings.  Text that comes from outside  *)
(* the program (commands, paths, reasons, replies) is given character by   *)
(* character, one one-character string per element, so that the regular    *)
(* expressions of the safety gate and the quoting functions act on it as   *)
(* the code does.  A literal of the source may be one element of several   *)
(* characters when it holds prose only; every character the shell treats   *)
(* specially (quotes, newline, semicolon) is an element of its own.        *)
(* Concatenation of texts is \o.                                           *)
(***************************************************************************)
EXTENDS Naturals, Sequences, FiniteSets, TLC

\* ------------------------------------------------------------------------
\* Python's re module, for the constructs the source's patterns use.
\* A pattern is a sequence of elements [t, s, set, alts].
\* ------------------------------------------------------------------------

Lower == {"a","b","c","d","e","f","g","h","i","j","k","l","m",
          "n","o","p","q","r","s","t","u","v","w","x","y","z"}

Upper == {"A","B","C","D","E","F","G","H","I","J","K","L","M",
          "N","O","P","Q","R","S","T","U","V","W","X","Y","Z"}

Digits == {"0","1","2","3","4","5","6","7","8","9"}

\* \w
WordChars == Lower \cup Upper \cup Digits \cup {"_"}

\* \s
SpaceChars == {" ", "\t", "\n", "\r", "\f"}

Lit(s) == [t |-> "lit", s |-> s, set |-> {}, alts |-> {}]

WB == [t |-> "wb", s |-> <<>>, set |-> {}, alts |-> {}]

WS1 == [t |-> "ws1", s |-> <<>>, set |-> {}, alts |-> {}]

WS0 == [t |-> "ws0", s |-> <<>>, set |-> {}, alts |-> {}]

EOS == [t |-> "eos", s |-> <<>>, set |-> {}, alts |-> {}]

BOS == [t |-> "bos", s |-> <<>>, set |-> {}, alts |-> {}]

DotStar == [t |-> "dotstar", s |-> <<>>, set |-> {}, alts |-> {}]

Class(cs) == [t |-> "class", s |-> <<>>, set |-> cs, alts |-> {}]

Alt(ps) == [t |-> "alt", s |-> <<>>, set |-> {}, alts |-> ps]

\* \b at offset i of s (i characters lie before the position)
IsBoundary(s, i) ==
    LET before == i >= 1 /\ s[i] \in WordChars
        after  == i < Len(s) /\ s[i + 1] \in WordChars
    IN  before # after

\* $ at offset i: the end of the string, or just before a final newline
IsEnd(s, i) == i = Len(s) \/ (i = Len(s) - 1 /\ s[Len(s)] = "\n")

RECURSIVE MatchFrom(_, _, _, _)
\* elements k.. of pat match s from offset i on
MatchFrom(pat, k, s, i) ==
    IF k > Len(pat) THEN TRUE
    ELSE LET e == pat[k] IN
      CASE e.t = "lit" ->
             /\ i + Len(e.s) <= Len(s)
             /\ SubSeq(s, i + 1, i + Len(e.s)) = e.s
             /\ MatchFrom(pat, k + 1, s, i + Len(e.s))
        [] e.t = "wb" -> IsBoundary(s, i) /\ MatchFrom(pat, k + 1, s, i)
        [] e.t = "eos" -> IsEnd(s, i) /\ MatchFrom(pat, k + 1, s, i)
        [] e.t = "bos" -> i = 0 /\ MatchFrom(pat, k + 1, s, i)
        [] e.t = "ws1" ->
             \E j \in (i + 1)..Len(s) :
                /\ \A m \in (i + 1)..j : s[m] \in SpaceChars
                /\ MatchFrom(pat, k + 1, s, j)
        [] e.t = "ws0" ->
             \E j \in i..Len(s) :
                /\ \A m \in (i + 1)..j : s[m] \in SpaceChars
                /\ MatchFrom(pat, k + 1, s, j)
        [] e.t = "dotstar" ->
             \E j \in i..Len(s) :
                /\ \A m \in (i + 1)..j : s[m] # "\n"
                /\ MatchFrom(pat, k + 1, s, j)
        [] e.t = "class" ->
             /\ i < Len(s)
             /\ s[i + 1] \in e.set
             /\ MatchFrom(pat, k + 1, s, i + 1)
        [] e.t = "alt" ->
             \E a \in e.alts :
                MatchFrom(a \o SubSeq(pat, k + 1, Len(pat)), 1, s, i)

\* re.search(pat, s) is not None
re_search(pat, s) == \E i \in 0..Len(s) : MatchFrom(pat, 1, s, i)

\* ------------------------------------------------------------------------
\* Safety Gate
\* ------------------------------------------------------------------------

FORBIDDEN_PATTERNS ==
    << <<WB, Lit(<<"r","m">>), WS1, Lit(<<"-","r","f">>), WB>>,
       <<WB, Lit(<<"d","d">>), WS1, Lit(<<"i","f","=">>)>>,
       <<WB, Lit(<<"m","k","f","s">>), WB>>,
       <<WB, Lit(<<"s","h","u","t","d","o","w","n">>), WB>>,
       <<WB, Lit(<<"r","e","b","o","o","t">>), WB>>,
       <<Lit(<<">">>), WS0, Lit(<<"/">>), EOS>>,
       <<Lit(<<"|">>), WS0,
         Alt({ <<Lit(<<"s","h">>)>>, <<Lit(<<"b","a","s","h">>)>>,
               <<Lit(<<"z","s","h">>)>> }), WB>>,
       <<Lit(<<":","(",")">>), WS0, Lit(<<"{">>), DotStar, Lit(<<"|">>), WS0,
         Lit(<<"&">>), WS0, Lit(<<"}",";",":">>)>>,
       <<WB, Lit(<<"c","h","m","o","d">>), WS1, Lit(<<"-","R">>), WS1,
         Lit(<<"7","7","7">>), WS1, Lit(<<"/">>), WB>>,
       <<WB, Lit(<<"m","v">>), WS1, Lit(<<"/">>), WB>>,
       <<Lit(<<">">>), WS0, Lit(<<"/","d","e","v","/","s","d">>), Class(Lower)>> >>

SENSITIVE_UPLOAD_PATTERNS ==
    << <<Alt({ <<BOS>>, <<Lit(<<"/">>)>> }), Lit(<<".","s","s","h">>),
         Alt({ <<Lit(<<"/">>)>>, <<EOS>> })>>,
       <<Alt({ <<BOS>>, <<Lit(<<"/">>)>> }), Lit(<<".","a","w","s">>),
         Alt({ <<Lit(<<"/">>)>>, <<EOS>> })>>,
       <<Alt({ <<BOS>>, <<Lit(<<"/">>)>> }), Lit(<<".","g","n","u","p","g">>),
         Alt({ <<Lit(<<"/">>)>>, <<EOS>> })>>,
       <<Alt({ <<BOS>>, <<Lit(<<"/">>)>> }), Lit(<<".","e","n","v">>), EOS>>,
       <<Lit(<<".","p","e","m">>), EOS>>,
       <<Lit(<<".","k","e","y">>), EOS>>,
       <<Lit(<<"i","d","_","r","s","a">>), EOS>>,
       <<Lit(<<"i","d","_","e","d","2","5","5","1","9">>), EOS>> >>

is_runtime_safe(cmd) ==
    ~ \E n \in 1..Len(FORBIDDEN_PATTERNS) : re_search(FORBIDDEN_PATTERNS[n], cmd)

\* the path as it was given
KeepSeparators(p) == p

\* p.replace("\\", "/")
NormSeparators(p) == [n \in 1..Len(p) |-> IF p[n] = "\\" THEN "/" ELSE p[n]]

_is_sensitive_upload_path(p) ==
    \E n \in 1..Len(SENSITIVE_UPLOAD_PATTERNS) :
        re_search(SENSITIVE_UPLOAD_PATTERNS[n], NormSeparators(p))

\* ------------------------------------------------------------------------
\* Text helpers (str methods, json.dumps, shlex.quote)
\* ------------------------------------------------------------------------

LowerSeq == <<"a","b","c","d","e","f","g","h","i","j","k","l","m",
              "n","o","p","q","r","s","t","u","v","w","x","y","z">>

UpperSeq == <<"A","B","C","D","E","F","G","H","I","J","K","L","M",
              "N","O","P","Q","R","S","T","U","V","W","X","Y","Z">>

UpperChar(c) ==
    IF c \in Lower THEN UpperSeq[CHOOSE n \in 1..26 : LowerSeq[n] = c] ELSE c

\* str.upper()
StrUpper(s) == [n \in 1..Len(s) |-> UpperChar(s[n])]

RECURSIVE LStrip(_)
LStrip(s) == IF s # <<>> /\ Head(s) \in SpaceChars THEN LStrip(Tail(s)) ELSE s

RECURSIVE RStrip(_)
RStrip(s) ==
    IF s # <<>> /\ s[Len(s)] \in SpaceChars
    THEN RStrip(SubSeq(s, 1, Len(s) - 1)) ELSE s

\* str.strip()
StrStrip(s) == RStrip(LStrip(s))

RECURSIVE MapConcat(_, _)
\* the concatenation of f[c] over the elements c of s
MapConcat(f, s) == IF s = <<>> THEN <<>> ELSE f[Head(s)] \o MapConcat(f, Tail(s))

RECURSIVE Join(_, _)
\* sep.join(parts)
Join(sep, parts) ==
    IF parts = <<>> THEN <<>>
    ELSE IF Len(parts) = 1 THEN parts[1]
    ELSE parts[1] \o sep \o Join(sep, Tail(parts))

\* json.dumps of a str: the escapes of the characters the model's texts hold
JsonEscape(c) ==
    CASE c = "\"" -> <<"\\", "\"">>
      [] c = "\\" -> <<"\\", "\\">>
      [] c = "\n" -> <<"\\", "n">>
      [] OTHER -> <<c>>

json_dumps(msg) ==
    <<"\"">> \o MapConcat([c \in {msg[n] : n \in 1..Len(msg)} |-> JsonEscape(c)], msg)
             \o <<"\"">>

safe_echo(msg) == <<"echo ">> \o json_dumps(msg)

\* shlex.quote: the characters it leaves unquoted
ShlexSafeChars == WordChars \cup {"@", "%", "+", "=", ":", ",", ".", "/", "-"}

ShlexEscape(c) == IF c = "'" THEN <<"'", "\"", "'", "\"", "'">> ELSE <<c>>

\* shlex.quote(s)
_bash_quote(s) ==
    IF s = <<>> THEN <<"'", "'">>
    ELSE IF \A n \in 1..Len(s) : s[n] \in ShlexSafeChars THEN s
    ELSE <<"'">> \o MapConcat([c \in {s[n] : n \in 1..Len(s)} |-> ShlexEscape(c)], s)
                 \o <<"'">>

\* ------------------------------------------------------------------------
\* Python dict (insertion ordered): a sequence of <<key, value>> pairs
\* ------------------------------------------------------------------------

DictHas(d, k) == \E n \in 1..Len(d) : d[n][1] = k

\* a dict that puts a new key in front of the older ones
DictPush(d, k, v) ==
    IF DictHas(d, k)
    THEN [n \in 1..Len(d) |-> IF d[n][1] = k THEN <<k, v>> ELSE d[n]]
    ELSE <<<<k, v>>>> \o d

\* d[k] = v
DictSet(d, k, v) ==
    IF DictHas(d, k)
    THEN [n \in 1..Len(d) |-> IF d[n][1] = k THEN <<k, v>> ELSE d[n]]
    ELSE Append(d, <<k, v>>)

DictGet(d, k) == d[CHOOSE n \in 1..Len(d) : d[n][1] = k][2]

\* ------------------------------------------------------------------------
\* The environment of one command-resolution cycle: command texts, what a
\* subprocess does with each, and the replies of the decision service.
\* ------------------------------------------------------------------------

CmdEchoHi == <<"e","c","h","o"," ","h","i">>

CmdLs == <<"l","s">>

CmdSleep == <<"s","l","e","e","p"," ","6","0">>

CmdRmRf == <<"r","m"," ","-","r","f"," ","/">>

\* a built-in that changes the state of the shell that runs it
CmdCd == <<"c","d"," ","/","t","m","p">>

\* one list item that closes the case arm it is put in:  ls ;; *) ls
CmdCloseArm == <<"l","s"," ",";",";"," ","*",")"," ","l","s">>

CmdBlank == <<" ", " ">>

\* subprocess.run(cmd, shell=True, capture_output=True, timeout=10):
\* raised (TimeoutExpired, OSError) or stdout + stderr
SubprocessRun(cmd) ==
    CASE cmd = CmdEchoHi -> [raised |-> FALSE, out |-> <<"h","i","\n">>]
      [] cmd = CmdLs -> [raised |-> FALSE, out |-> <<"a",".","l","o","g","\n">>]
      [] cmd = CmdSleep -> [raised |-> TRUE, out |-> <<>>]
      [] OTHER -> [raised |-> FALSE, out |-> <<>>]

OUTPUT_LIMIT == 4000

run_command(cmd) ==
    LET r == SubprocessRun(cmd) IN
    IF r.raised THEN <<"ERROR: ", "Command timed out after 10 seconds">>
    ELSE LET t == StrStrip(r.out) IN
         IF Len(t) > OUTPUT_LIMIT THEN SubSeq(t, 1, OUTPUT_LIMIT) ELSE t

PathLog == <<"/","t","m","p","/","a",".","l","o","g">>

PathKey == <<"/","h","/",".","s","s","h","/","i","d","_","r","s","a">>

PathBig == <<"/","t","m","p","/","b","i","g">>

PathDir == <<"/","t","m","p">>

PathMissing == <<"/","n","o","p","e">>

\* the name of no file, with single quotes in it:  x'; rm -rf /; echo '
PathQuote == <<"x","'",";"," ","r","m"," ","-","r","f"," ","/",";"," ","e","c","h","o"," ","'">>

\* a small regular file that is listed as the eleventh path of a request
PathNotes == <<"/","t","m","p","/","n">>

\* a file that is removed between the isfile test and the getsize call
PathGone == <<"/","t","m","p","/","g","o","n","e">>

\* os.path.exists, os.path.isfile, os.path.getsize (oserror: getsize raises)
FileSystem(path) ==
    CASE path = PathLog ->
           [exists |-> TRUE, isfile |-> TRUE, oserror |-> FALSE, size |-> 120]
      [] path = PathKey ->
           [exists |-> TRUE, isfile |-> TRUE, oserror |-> FALSE, size |-> 400]
      [] path = PathNotes ->
           [exists |-> TRUE, isfile |-> TRUE, oserror |-> FALSE, size |-> 10]
      [] path = PathBig ->
           [exists |-> TRUE, isfile |-> TRUE, oserror |-> FALSE, size |-> 250001]
      [] path = PathDir ->
           [exists |-> TRUE, isfile |-> FALSE, oserror |-> FALSE, size |-> 4096]
      [] path = PathGone ->
           [exists |-> TRUE, isfile |-> TRUE, oserror |-> TRUE, size |-> 0]
      [] OTHER -> [exists |-> FALSE, isfile |-> FALSE, oserror |-> FALSE, size |-> 0]

\* the JSON value of the "commands" field: a list of strings ...
Strs(texts) ==
    [list |-> TRUE, items |-> [n \in 1..Len(texts) |-> [isstr |-> TRUE, v |-> texts[n]]]]

\* ... or something else
NotAList == [list |-> FALSE, items |-> <<>>]

Reason(text) == [none |-> FALSE, v |-> text]

NoReason == [none |-> TRUE, v |-> <<>>]

\* a reply that parses to a JSON object with an "action" field
Obj(a, cmds, rsn) ==
    [kind |-> "object", has_action |-> TRUE, action |-> a, commands |-> cmds,
     reason |-> rsn]

\* a JSON object without "action"; valid JSON that is no object; text that is
\* no JSON; no reply at all (the call raised)
OtherReply(kind) ==
    [kind |-> kind, has_action |-> FALSE, action |-> <<>>, commands |-> Strs(<<>>),
     reason |-> NoReason]

TagInspect == <<"I","N","S","P","E","C","T">>

TagUpload == <<"U","P","L","O","A","D">>

TagAsk == <<"A","S","K">>

TagReview == <<"R","E","V","I","E","W">>

TagExecute == <<"E","X","E","C","U","T","E">>

TagBlock == <<"B","L","O","C","K">>

ReasonText == <<"w","h","y","?">>

InspectReplies ==
    { Obj(TagInspect, Strs(<<CmdEchoHi>>), NoReason),
      Obj(TagInspect, Strs(<<CmdEchoHi, CmdEchoHi>>), NoReason),
      Obj(<<" ","i","n","s","p","e","c","t"," ">>, Strs(<<CmdSleep, CmdLs>>), NoReason),
      Obj(TagInspect, Strs(<<CmdRmRf, CmdLs>>), NoReason),
      Obj(TagInspect, Strs(<<>>), NoReason) }

UploadReplies ==
    { Obj(TagUpload, Strs(<<PathLog>>), Reason(ReasonText)),
      Obj(TagUpload, Strs(<<PathLog, PathKey>>), Reason(ReasonText)),
      Obj(TagUpload, Strs(<<PathBig, PathDir, PathMissing, PathGone>>),
          Reason(ReasonText)),
      Obj(TagUpload, Strs(<<PathQuote>>), Reason(ReasonText)),
      Obj(TagUpload, Strs(<<PathLog, PathDir, PathMissing, PathDir, PathMissing, PathDir,
                            PathMissing, PathDir, PathMissing, PathDir, PathNotes>>),
          Reason(ReasonText)) }

InvalidReplies ==
    { Obj(<<"D","E","L","E","T","E">>, Strs(<<CmdEchoHi>>), NoReason),
      OtherReply("object") }

AskReplies ==
    { Obj(TagAsk, Strs(<<>>), Reason(ReasonText)), Obj(TagAsk, Strs(<<>>), NoReason) }

ReviewReplies ==
    { Obj(TagReview, Strs(<<CmdEchoHi, CmdLs>>), Reason(ReasonText)),
      Obj(TagReview, Strs(<<CmdEchoHi, CmdRmRf>>), Reason(ReasonText)),
      Obj(TagReview, Strs(<<CmdRmRf, CmdEchoHi>>), NoReason),
      Obj(TagReview, Strs(<<CmdCloseArm>>), Reason(ReasonText)),
      Obj(TagReview, Strs(<<>>), Reason(ReasonText)) }

ExecuteReplies ==
    { Obj(TagExecute, Strs(<<CmdEchoHi>>), NoReason),
      Obj(TagExecute, Strs(<<CmdLs, CmdEchoHi>>), NoReason),
      Obj(TagExecute, Strs(<<CmdEchoHi, CmdEchoHi>>), NoReason),
      Obj(<<"e","x","e","c","u","t","e">>, Strs(<<CmdEchoHi, CmdRmRf>>), NoReason),
      Obj(TagExecute, Strs(<<CmdRmRf, CmdEchoHi>>), NoReason),
      Obj(TagExecute, Strs(<<CmdSleep, CmdLs>>), NoReason),
      Obj(TagExecute, Strs(<<CmdCd>>), NoReason),
      Obj(TagExecute, Strs(<<CmdBlank>>), NoReason),
      Obj(TagExecute, NotAList, NoReason),
      Obj(TagExecute, Strs(<<>>), NoReason) }

BlockReplies ==
    { Obj(TagBlock, Strs(<<>>), Reason(ReasonText)), Obj(TagBlock, Strs(<<>>), NoReason) }

FailedReplies ==
    { OtherReply("transport_error"), OtherReply("bad_json"), OtherReply("non_object") }

Replies ==
    InspectReplies \cup UploadReplies \cup InvalidReplies \cup AskReplies
        \cup ReviewReplies \cup ExecuteReplies \cup BlockReplies \cup FailedReplies

\* ------------------------------------------------------------------------
\* OpenAiIntegrator: state
\* ------------------------------------------------------------------------

VARIABLES
    LLM_RESPONSE_ID,    \* class attribute: the retained remote-conversation handle
    CONTEXT_TRACKER,    \* class attribute: the exchange counter
    pc,                 \* "idle", "loop", "returned", "raised": where ai_terminal is
    user_input,         \* the argument of ai_terminal
    messages,           \* local: the message log
    last_sent_index,    \* local: the sent cursor
    seen_inspects,      \* local: the inspection ledger
    uploaded_files,     \* local: the upload ledger
    step,               \* local: rounds of the for loop completed
    ret,                \* the text ai_terminal returned
    stdout,             \* the lines ai_terminal printed
    runs,               \* history: the calls of run_command, in order
    staged,             \* history: the paths handed to client.files.create
    requests,           \* history: the calls of client.responses.create
    lastReply,          \* the decision service's previous reply
    changes,            \* how often its reply differed from the previous one
    argv,               \* thinkshellctl: sys.argv
    llm_engine,         \* thinkshellctl: whether "import llm_engine" succeeded
    environ,            \* thinkshellctl: the API keys set in os.environ
    ctl,                \* "start", "exited", "evaluated", "not_found": the hook
    agent_response,     \* the hook's $(...) capture of what main printed
    failed,             \* the hook's "$1" ... "$n": the words bash could not run
    calls,              \* how often the entry point was run
    status,             \* the status the hook returned
    shell_out,          \* what the hook itself echoed
    ppc,                \* main.py: where main, start_io_loop or the exit is
    tty,                \* the attributes of the controlling terminal
    old_attrs,          \* main: old_attrs, also the argument atexit keeps
    error,              \* the exception main is handling or propagating
    cause,              \* history: the step that failed, if one did
    restores,           \* history: how often restore was called
    failures,           \* history: how often tcsetattr raised inside restore
    exit_status,        \* the status the proxy process exits with
    running,            \* start_io_loop: running
    events,             \* start_io_loop: the rest of the batch select returned
    to_pty,             \* history: what os.write sent to the PTY
    to_stdout,          \* history: what os.write sent to the terminal
    ended,              \* history: a read returned end-of-file or raised EIO
    sigints,            \* history: keyboard interrupts raised while forwarding
    reads,              \* history: what os.read returned, and from which stream
    term_size,          \* the window size of the controlling terminal
    stdout_tty,         \* whether standard output is that terminal
    pty_size,           \* the window size of the PTY
    winch,              \* a SIGWINCH is pending for the installed handler
    resizes,            \* history: how often the terminal was resized
    probe,              \* the text handed to is_runtime_safe or the path predicate
    probed,             \* "none", "command", "path": which of the two was called
    verdict             \* what the call returned

\* the variables of OpenAiIntegrator.ai_terminal
loopvars == <<LLM_RESPONSE_ID, CONTEXT_TRACKER, pc, user_input, messages,
              last_sent_index, seen_inspects, uploaded_files, step, ret, stdout,
              runs, staged, requests, lastReply, changes>>

\* the variables of the shell hook and the entry point it calls
ctlvars == <<argv, llm_engine, environ, ctl, agent_response, failed, calls, status,
             shell_out>>

\* the variables of the proxy: main.main and io_loop.start_io_loop
proxyvars == <<ppc, tty, old_attrs, error, cause, restores, failures, exit_status, running,
               events, to_pty, to_stdout, ended, sigints, reads,
               term_size, stdout_tty, pty_size, winch, resizes>>

\* the argument and the result of one call of a predicate of the safety gate
gatevars == <<probe, probed, verdict>>

vars == <<loopvars, ctlvars, proxyvars, gatevars>>

\* LLM_RESPONSE_ID = None
NoHandle == 0

\* a handle retained from an earlier invocation
OldHandle == 1

MAX_CONTEXT_LENGTH == 20

MAX_STEPS == 12

MAX_UPLOAD_FILES == 10

MAX_UPLOAD_BYTES_PER_FILE == 250000

\* how often the decision service may change its reply within one invocation
MaxChanges == 1

\* termios attributes: the flags that are set, and the two control characters
\* set_manual_raw writes
Attrs(flags, vmin, vtime) == [flags |-> flags, vmin |-> vmin, vtime |-> vtime]

\* old_attrs before tcgetattr returned
NoAttrs == Attrs({}, 0, 0)

\* what a terminal in its usual line mode reports, and two other settings a
\* terminal can be in when the proxy starts
TtySane ==
    Attrs({"BRKINT", "ICRNL", "IXON", "OPOST", "CS8", "ECHO", "ICANON", "IEXTEN",
           "ISIG"}, 1, 0)

TtyNoEcho == Attrs(TtySane.flags \ {"ECHO"}, 1, 0)

TtyTimed == Attrs({"OPOST", "ISIG", "ISTRIP"}, 0, 5)

\* struct winsize: rows, columns and the two pixel sizes
Geometry(rows, cols, x_pix, y_pix) ==
    [rows |-> rows, cols |-> cols, x_pix |-> x_pix, y_pix |-> y_pix]

\* the proxy before main runs
\* no predicate of the safety gate is under test
GateIdle == probe = <<>> /\ probed = "none" /\ verdict = FALSE

ProxyIdle ==
    /\ ppc = "start"
    /\ tty = TtySane
    /\ old_attrs = NoAttrs
    /\ error = "none"
    /\ cause = "none"
    /\ restores = 0
    /\ failures = 0
    /\ exit_status = 0
    /\ running = FALSE
    /\ events = <<>>
    /\ to_pty = <<>>
    /\ to_stdout = <<>>
    /\ reads = <<>>
    /\ ended = FALSE
    /\ sigints = 0
    /\ term_size = Geometry(24, 80, 0, 0)
    /\ stdout_tty = TRUE
    /\ pty_size = Geometry(0, 0, 0, 0)
    /\ winch = FALSE
    /\ resizes = 0

\* response.id of the next response the remote service creates
NewId == Len(requests) + 2

UserInputs == { <<"l","i","s","t"," ","f","i","l","e","s">> }

\* the integrator between two invocations: new; used once; past the exchange limit
Sessions ==
    { <<NoHandle, 0>>, <<OldHandle, 1>>, <<OldHandle, MAX_CONTEXT_LENGTH + 1>> }

Message(tag, body) == [role |-> "system", tag |-> tag, body |-> body]

\* ------------------------------------------------------------------------
\* OpenAiIntegrator: methods
\* ------------------------------------------------------------------------

BlockDict(diag) == Obj(TagBlock, Strs(<<>>), Reason(<<"LLM Error: ">> \o diag))

\* call_llm without its except clause: text that is no JSON escapes as an error
call_llm_unguarded(reply, handle, newid) ==
    CASE reply.kind = "transport_error" ->
           [response |-> BlockDict(<<"Connection error.">>), isdict |-> TRUE,
            id |-> handle]
      [] reply.kind \in {"bad_json", "non_object"} ->
           [response |-> reply, isdict |-> FALSE, id |-> newid]
      [] OTHER -> [response |-> reply, isdict |-> TRUE, id |-> newid]

\* call_llm: the returned value, whether it is a dict, and LLM_RESPONSE_ID after
call_llm(reply, handle, newid) ==
    CASE reply.kind = "transport_error" ->
           [response |-> BlockDict(<<"Connection error.">>), isdict |-> TRUE,
            id |-> handle]
      [] reply.kind = "bad_json" ->
           [response |-> BlockDict(<<"Expecting value: line 1 column 1 (char 0)">>),
            isdict |-> TRUE, id |-> newid]
      [] reply.kind = "non_object" ->
           [response |-> reply, isdict |-> FALSE, id |-> newid]
      [] OTHER -> [response |-> reply, isdict |-> TRUE, id |-> newid]

normalize_commands(cmds) ==
    IF ~cmds.list THEN <<>>
    ELSE LET kept == SelectSeq(cmds.items, LAMBDA c : c.isstr /\ StrStrip(c.v) # <<>>)
         IN  [n \in 1..Len(kept) |-> kept[n].v]

\* str(llm_response.get("action", "")).upper().strip()
ActionTag(response) ==
    StrStrip(StrUpper(IF response.has_action THEN response.action ELSE <<>>))

\* str(reason or default)
ReasonOr(reason, default) ==
    IF reason.none \/ reason.v = <<>> THEN default ELSE reason.v

NL == <<"\n">>

Indent == <<" ", " ", " ", " ">>

ReviewHeader(reason, commands) ==
    << <<"printf ", "'", "%s", "\\", "n", "'", " ">>
          \o _bash_quote(<<"Review required: ">>
                            \o ReasonOr(Reason(reason), <<"Confirmation needed.">>)),
       <<"printf ", "'", "%s", "\\", "n", "'", " ", "'", "Proposed commands:", "'">> >>
    \o [n \in 1..Len(commands) |->
          <<"printf ", "'", "  %s", "\\", "n", "'", " ">> \o _bash_quote(commands[n])]

ReviewPrompt ==
    << <<"read -r -p ", "'", "Proceed? [y/N] ", "'", " TS_PROCEED">>,
       <<"case ", "\"", "$TS_PROCEED", "\"", " in">>,
       <<" ", " ", "y", "|", "Y", "|", "y", "e", "s", "|", "Y", "E", "S", ")">>,
       Indent \o <<"set -e">> >>

ReviewTail ==
    << Indent \o <<";", ";">>,
       <<" ", " ", "*", ")", " ", "echo ", "'", "Aborted.", "'", " ", ";", ";">>,
       <<"e", "s", "a", "c">> >>

ReviewBlocked == safe_echo(<<"Execution blocked by runtime safety guard.">>)

\* the snippet with the gate applied to the first command only
ReviewSnippetFirstOnly(reason, commands) ==
    IF commands # <<>> /\ ~is_runtime_safe(commands[1])
    THEN ReviewBlocked
    ELSE Join(NL, ReviewHeader(reason, commands) \o ReviewPrompt
                    \o [n \in 1..Len(commands) |-> Indent \o commands[n]]
                    \o ReviewTail)

_interactive_review_snippet(reason, commands) ==
    IF \E n \in 1..Len(commands) : ~is_runtime_safe(commands[n])
    THEN ReviewBlocked
    ELSE Join(NL, ReviewHeader(reason, commands) \o ReviewPrompt
                    \o [n \in 1..Len(commands) |-> Indent \o commands[n]]
                    \o ReviewTail)

_interactive_ask_snippet(original_intent, question) ==
    Join(NL,
      << <<"printf ", "'", "%s", "\\", "n", "'", " ">>
            \o _bash_quote(IF question = <<>> THEN <<"Need more information.">>
                           ELSE question),
         <<"read -r -p ", "'", "> ", "'", " TS_ANSWER">>,
         <<"TS_FOLLOWUP=">> \o _bash_quote(original_intent),
         <<"TS_NEW_QUERY=", "\"", "$TS_FOLLOWUP", "\n", "\n", "USER_ANSWER: ",
           "$TS_ANSWER", "\"">>,
         <<"agentresponse=", "\"", "$(", "$TSPY", " ", "$TSCTL", " ", "FAIL", " ", "\"",
           "$TS_NEW_QUERY", "\"", ")", "\"">>,
         <<"if [ -n ", "\"", "$agentresponse", "\"", " ]", ";", " then eval ", "\"",
           "$agentresponse", "\"", ";", " fi">> >>)

\* print(f"echo '<what>{text}'")
EchoLine(what, text) == <<"echo ", "'", what>> \o text \o <<"'">>

\* the pass without the safety gate
InspectStepNoGate(cmd, acc) ==
    IF cmd \in acc.seen
    THEN [acc EXCEPT !.out = DictSet(@, cmd, <<"ERROR: repeated inspection detected">>)]
    ELSE [seen |-> acc.seen \cup {cmd},
          out |-> DictSet(acc.out, cmd, run_command(cmd)),
          runs |-> Append(acc.runs, [via |-> "INSPECT", cmd |-> cmd, step |-> step]),
          stdout |-> Append(acc.stdout, EchoLine("Inspecting command: ", cmd))]

\* the pass without the ledger lookup
InspectStepNoLedger(cmd, acc) ==
    IF ~is_runtime_safe(cmd)
    THEN [acc EXCEPT !.out = DictSet(@, cmd, <<"BLOCKED: runtime safety guard">>)]
    ELSE [seen |-> acc.seen \cup {cmd},
          out |-> DictSet(acc.out, cmd, run_command(cmd)),
          runs |-> Append(acc.runs, [via |-> "INSPECT", cmd |-> cmd, step |-> step]),
          stdout |-> Append(acc.stdout, EchoLine("Inspecting command: ", cmd))]

\* one pass of the INSPECT branch's for loop
InspectStep(cmd, acc) ==
    IF cmd \in acc.seen
    THEN [acc EXCEPT !.out = DictSet(@, cmd, <<"ERROR: repeated inspection detected">>)]
    ELSE IF ~is_runtime_safe(cmd)
    THEN [acc EXCEPT !.out = DictSet(@, cmd, <<"BLOCKED: runtime safety guard">>)]
    ELSE [seen |-> acc.seen \cup {cmd},
          out |-> DictSet(acc.out, cmd, run_command(cmd)),
          runs |-> Append(acc.runs, [via |-> "INSPECT", cmd |-> cmd, step |-> step]),
          stdout |-> Append(acc.stdout, EchoLine("Inspecting command: ", cmd))]

RECURSIVE InspectLoopAborts(_, _)
\* the INSPECT loop left at the first probe that raises
InspectLoopAborts(commands, acc) ==
    IF commands = <<>> THEN acc
    ELSE IF /\ Head(commands) \notin acc.seen
            /\ is_runtime_safe(Head(commands))
            /\ SubprocessRun(Head(commands)).raised
    THEN InspectStep(Head(commands), acc)
    ELSE InspectLoopAborts(Tail(commands), InspectStep(Head(commands), acc))

RECURSIVE InspectLoop(_, _)
InspectLoop(commands, acc) ==
    IF commands = <<>> THEN acc
    ELSE InspectLoop(Tail(commands), InspectStep(Head(commands), acc))

\* one pass of the EXECUTE branch's for loop; acc.blocked ends the loop
ExecuteStep(cmd, acc) ==
    IF ~is_runtime_safe(cmd)
    THEN [acc EXCEPT !.blocked = TRUE,
                     !.ret = safe_echo(<<"Execution blocked by runtime safety guard, for command : ">>
                                         \o cmd)]
    ELSE [acc EXCEPT !.result = Append(@, run_command(cmd)),
                     !.runs = Append(@, [via |-> "EXECUTE", cmd |-> cmd, step |-> step]),
                     !.stdout = Append(@, EchoLine("Executing command : ", cmd))]

RECURSIVE ExecuteLoop(_, _)
ExecuteLoop(commands, acc) ==
    IF commands = <<>> \/ acc.blocked THEN acc
    ELSE ExecuteLoop(Tail(commands), ExecuteStep(Head(commands), acc))

\* the branch without the notice for an empty list
ExecuteBranchNoNotice(commands) ==
    LET acc == ExecuteLoop(commands, [blocked |-> FALSE, ret |-> <<>>, result |-> <<>>,
                                      runs |-> runs, stdout |-> stdout])
    IN  IF acc.blocked THEN acc ELSE [acc EXCEPT !.ret = Join(NL, acc.result)]

\* the EXECUTE branch: what it returns, runs and prints
ExecuteBranch(commands) ==
    LET acc == ExecuteLoop(commands, [blocked |-> FALSE, ret |-> <<>>, result |-> <<>>,
                                      runs |-> runs, stdout |-> stdout])
    IN  IF acc.blocked THEN acc
        ELSE [acc EXCEPT !.ret = IF commands # <<>> THEN Join(NL, acc.result)
                                 ELSE safe_echo(<<"No commands provided.">>)]

\* _validate_file without the test of lines 315-317
_validate_file_any_path(path) ==
    LET f == FileSystem(path) IN
    IF ~f.exists THEN [ok |-> FALSE, line |-> EchoLine("File not found: ", path)]
    ELSE IF ~f.isfile THEN [ok |-> FALSE, line |-> EchoLine("Not a file: ", path)]
    ELSE IF f.oserror
    THEN [ok |-> FALSE, line |-> EchoLine("Error checking file size: ", path)]
    ELSE IF f.size > MAX_UPLOAD_BYTES_PER_FILE
    THEN [ok |-> FALSE, line |-> EchoLine("File too large: ", path)]
    ELSE [ok |-> TRUE, line |-> <<>>]

\* _validate_file: the verdict and the line it prints on a refusal
_validate_file(path) ==
    LET f == FileSystem(path) IN
    IF ~f.exists THEN [ok |-> FALSE, line |-> EchoLine("File not found: ", path)]
    ELSE IF ~f.isfile THEN [ok |-> FALSE, line |-> EchoLine("Not a file: ", path)]
    ELSE IF _is_sensitive_upload_path(path)
    THEN [ok |-> FALSE, line |-> EchoLine("Sensitive file blocked: ", path)]
    ELSE IF f.oserror
    THEN [ok |-> FALSE, line |-> EchoLine("Error checking file size: ", path)]
    ELSE IF f.size > MAX_UPLOAD_BYTES_PER_FILE
    THEN [ok |-> FALSE, line |-> EchoLine("File too large: ", path)]
    ELSE [ok |-> TRUE, line |-> <<>>]

\* file_object.id for the file staged from path
FileId(path) == <<"file-">> \o path

\* one pass of the UPLOAD branch's for loop; accepted: files.create succeeds
UploadStep(path, accepted, acc) ==
    IF path \in acc.uploaded THEN acc
    ELSE LET v == _validate_file(path) IN
      IF ~v.ok
      THEN [acc EXCEPT !.payload = DictSet(@, path, <<"VALIDATION_FAILED">>),
                       !.stdout = Append(@, v.line)]
      ELSE IF accepted
      THEN [uploaded |-> acc.uploaded \cup {path},
            payload |-> DictSet(acc.payload, path, FileId(path)),
            staged |-> Append(acc.staged, path),
            stdout |-> Append(acc.stdout, EchoLine("Uploading file ", path))]
      ELSE [uploaded |-> acc.uploaded,
            payload |-> DictSet(acc.payload, path, <<"UPLOAD_FAILED">>),
            staged |-> Append(acc.staged, path),
            stdout |-> acc.stdout \o << EchoLine("Uploading file ", path),
                                        <<"echo ", "'", "Upload failed for ">> \o path
                                           \o <<": ", "Connection error.", "'">> >>]

RECURSIVE UploadLoop(_, _, _, _)
UploadLoop(paths, accepted, n, acc) ==
    IF n > Len(paths) THEN acc
    ELSE UploadLoop(paths, accepted, n + 1, UploadStep(paths[n], accepted[n], acc))

\* the whole request
UploadAll(commands) == commands

\* commands[:self.MAX_UPLOAD_FILES]
UploadSlice(commands) ==
    SubSeq(commands, 1, IF Len(commands) < MAX_UPLOAD_FILES THEN Len(commands)
                        ELSE MAX_UPLOAD_FILES)

\* ------------------------------------------------------------------------
\* bash evaluating the text it is handed (eval "$agent_response"): the part of
\* its grammar the emitted snippets use.  Quotes group; outside quotes a
\* newline or ; ends a command and ;; ends a case arm.
\* ------------------------------------------------------------------------

\* the open quote ("" for none) after character c read with quote q open
QuoteStep(q, c) ==
    IF q # "" THEN (IF c = q THEN "" ELSE q)
    ELSE IF c \in {"'", "\""} THEN c ELSE ""

RECURSIVE QuoteScan(_, _)
\* the open quote before each character of text, and after the last one
QuoteScan(text, q) ==
    IF text = <<>> THEN [before |-> <<>>, after |-> q]
    ELSE IF Len(text) = 1 THEN [before |-> <<q>>, after |-> QuoteStep(q, text[1])]
    ELSE LET half == Len(text) \div 2
             l == QuoteScan(SubSeq(text, 1, half), q)
             r == QuoteScan(SubSeq(text, half + 1, Len(text)), l.after)
         IN  [before |-> l.before \o r.before, after |-> r.after]

\* the commands of a text, in order, each with what ends it: ";", ";;", a
\* newline, or "" at the end of the text
ShellItems(text) ==
    LET quote == QuoteScan(text, "").before
        Semi(n) == n >= 1 /\ n <= Len(text) /\ text[n] = ";" /\ quote[n] = ""
        \* the ; before n that directly precede it
        Run(n) == (n - 1) - (CHOOSE m \in 0..(n - 1) :
                                /\ ~Semi(m)
                                /\ \A k \in (m + 1)..(n - 1) : Semi(k))
        Second(n) == Semi(n) /\ Run(n) % 2 = 1
        ends == { n \in 1..Len(text) :
                    /\ quote[n] = ""
                    /\ text[n] \in {";", "\n"}
                    /\ ~Second(n) }
        Double(n) == Semi(n) /\ Semi(n + 1)
        Nth(k) == CHOOSE n \in ends : Cardinality({ m \in ends : m < n }) = k - 1
        count == Cardinality(ends)
        From(k) == IF k = 1 THEN 1
                   ELSE Nth(k - 1) + (IF Double(Nth(k - 1)) THEN 2 ELSE 1)
    IN  [k \in 1..(count + 1) |->
           IF k <= count
           THEN [text |-> SubSeq(text, From(k), Nth(k) - 1),
                 end |-> IF Double(Nth(k)) THEN ";;" ELSE text[Nth(k)]]
           ELSE [text |-> SubSeq(text, From(k), Len(text)), end |-> ""]]

\* the commands of a text without the blank ones
ShellCommands(text) ==
    LET kept == SelectSeq(ShellItems(text), LAMBDA it : StrStrip(it.text) # <<>>)
    IN  [n \in 1..Len(kept) |-> StrStrip(kept[n].text)]

NoArm == [open |-> FALSE, pattern |-> <<>>, commands |-> <<>>]

\* pattern) command: the arm that an item opens
OpenArm(item) ==
    LET p == CHOOSE n \in 1..Len(item) :
                 item[n] = ")" /\ \A m \in 1..(n - 1) : item[m] # ")"
        first == StrStrip(SubSeq(item, p + 1, Len(item)))
    IN  [open |-> TRUE, pattern |-> SubSeq(item, 1, p - 1),
         commands |-> IF first = <<>> THEN <<>> ELSE <<first>>]

\* an arm with one more item read
ReadItem(arm, item) ==
    IF item = <<>> THEN arm
    ELSE IF arm.open THEN [arm EXCEPT !.commands = Append(@, item)]
    ELSE OpenArm(item)

RECURSIVE CaseArms(_, _, _)
\* the arms of a case command, from the items that follow "case word in"
CaseArms(items, arm, out) ==
    IF items = <<>> THEN out
    ELSE LET item == StrStrip(Head(items).text) IN
         IF ~arm.open /\ item # <<>>
               /\ (item = <<"e", "s", "a", "c">> \/ ~(\E n \in 1..Len(item) : item[n] = ")"))
         THEN out
         ELSE LET read == ReadItem(arm, item) IN
              IF Head(items).end = ";;"
              THEN CaseArms(Tail(items), NoArm, IF read.open THEN Append(out, read) ELSE out)
              ELSE CaseArms(Tail(items), read, out)

RECURSIVE SplitBar(_, _, _)
\* the alternatives of a case pattern
SplitBar(pattern, cur, out) ==
    IF pattern = <<>> THEN Append(out, StrStrip(cur))
    ELSE IF Head(pattern) = "|"
    THEN SplitBar(Tail(pattern), <<>>, Append(out, StrStrip(cur)))
    ELSE SplitBar(Tail(pattern), Append(cur, Head(pattern)), out)

\* whether a case pattern matches a word: * matches every word
PatternMatches(pattern, word) ==
    LET alts == SplitBar(pattern, <<>>, <<>>)
    IN  \E n \in 1..Len(alts) : alts[n] = <<"*">> \/ alts[n] = word

RECURSIVE RunList(_, _, _, _)
\* the commands of a list that run, in order: under set -e the shell exits at
\* the first command of fails, the commands whose exit status is not 0
RunList(commands, errexit, fails, ran) ==
    IF commands = <<>> THEN ran
    ELSE IF Head(commands) = <<"set -e">>
    THEN RunList(Tail(commands), TRUE, fails, ran)
    ELSE IF errexit /\ Head(commands) \in fails THEN Append(ran, Head(commands))
    ELSE RunList(Tail(commands), errexit, fails, Append(ran, Head(commands)))

\* what the case command of a snippet runs when read stored answer in
\* TS_PROCEED: the commands of the first arm whose pattern matches
EvalCase(snippet, answer, fails) ==
    LET items == ShellItems(snippet)
        head == <<"case ", "\"", "$TS_PROCEED", "\"", " in">>
        at == { n \in 1..Len(items) : items[n].text = head }
    IN  IF at = {} THEN <<>>
        ELSE LET k == CHOOSE n \in at : \A m \in at : n <= m
                 arms == CaseArms(SubSeq(items, k + 1, Len(items)), NoArm, <<>>)
                 hits == { n \in 1..Len(arms) : PatternMatches(arms[n].pattern, answer) }
             IN  IF hits = {} THEN <<>>
                 ELSE RunList(arms[CHOOSE n \in hits : \A m \in hits : n <= m].commands,
                              FALSE, fails, <<>>)

\* pty_shell.py lines 43-44: the variables spawn_shell exports to the shell,
\* named as a snippet refers to them
spawn_shell_env == {"$TS_CTL", "$TS_PY"}

\* pty_shell.py line 72: the variables command_not_found_handle reads to run
\* the entry point
hook_env == {"$TS_PY", "$TS_CTL"}

\* the variables the Ask snippet sets before its command substitution
AskAssigned == {"$TS_ANSWER", "$TS_FOLLOWUP", "$TS_NEW_QUERY"}

\* the text between "$(" and the ")" that closes it: the command a snippet
\* runs to obtain agentresponse
SubstitutedCommand(snippet) ==
    LET opens == { n \in 1..Len(snippet) : snippet[n] = "$(" } IN
    IF opens = {} THEN <<>>
    ELSE LET i == CHOOSE n \in opens : \A m \in opens : n <= m
             j == CHOOSE n \in (i + 1)..Len(snippet) :
                     /\ snippet[n] = ")"
                     /\ \A m \in (i + 1)..(n - 1) : snippet[m] # ")"
         IN  SubSeq(snippet, i + 1, j - 1)

\* bash parameter expansion and word splitting of one simple command: a
\* reference to a variable of `defined` stands for its value, a reference to
\* an unset variable expands to nothing, and a word that is empty and was
\* never quoted is dropped
RECURSIVE CommandWords(_, _, _)
CommandWords(text, defined, acc) ==
    LET flush == IF acc.has THEN Append(acc.out, acc.cur) ELSE acc.out IN
    IF text = <<>> THEN flush
    ELSE LET c == Head(text)
             isvar == c \in defined \cup {"$TSPY", "$TSCTL"}
             value == IF c \in defined THEN <<c>> ELSE <<>>
         IN  CommandWords(Tail(text), defined,
               IF c = "\"" THEN [acc EXCEPT !.q = ~acc.q, !.has = TRUE]
               ELSE IF isvar
                    THEN [acc EXCEPT !.cur = acc.cur \o value,
                                     !.has = acc.has \/ acc.q \/ value # <<>>]
               ELSE IF c = " " /\ ~acc.q
                    THEN [acc EXCEPT !.cur = <<>>, !.has = FALSE, !.out = flush]
               ELSE [acc EXCEPT !.cur = Append(acc.cur, c), !.has = TRUE])

\* the working directory of the interactive shell when the hook fires
StartDir == <<"/","h">>

\* the working directory of a shell that was in dir and ran the command: cd
\* changes it, every other command of the model leaves it alone
ChangeDir(dir, command) ==
    IF Len(command) > 3 /\ SubSeq(command, 1, 3) = <<"c","d"," ">>
    THEN SubSeq(command, 4, Len(command))
    ELSE dir

RECURSIVE DirAfter(_, _)
\* the working directory of a shell that was in dir and ran the commands
DirAfter(dir, commands) ==
    IF commands = <<>> THEN dir
    ELSE DirAfter(ChangeDir(dir, Head(commands)), Tail(commands))

\* the hook's eval "$agent_response": the working directory of the
\* interactive shell after it evaluated what the entry point printed.  The
\* shells subprocess.run starts are children: their directory ends with them.
ShellDirAfterEval(printed) == DirAfter(StartDir, ShellCommands(printed))

\* ------------------------------------------------------------------------
\* ai_terminal
\* ------------------------------------------------------------------------

NoReply == OtherReply("none")

Request(purpose, prev, first, last) ==
    [purpose |-> purpose, prev |-> prev, first |-> first, last |-> last]

Init ==
    /\ \E s \in Sessions : LLM_RESPONSE_ID = s[1] /\ CONTEXT_TRACKER = s[2]
    /\ user_input \in UserInputs
    /\ pc = "idle"
    /\ messages = <<>>
    /\ last_sent_index = 0
    /\ seen_inspects = {}
    /\ uploaded_files = {}
    /\ step = 0
    /\ ret = <<>>
    /\ stdout = <<>>
    /\ runs = <<>>
    /\ staged = <<>>
    /\ requests = <<>>
    /\ lastReply = NoReply
    /\ changes = 0
    /\ argv = <<>>
    /\ llm_engine = FALSE
    /\ environ = {}
    /\ ctl = "start"
    /\ agent_response = <<>>
    /\ failed = <<>>
    /\ calls = 0
    /\ status = 0
    /\ shell_out = <<>>
    /\ ProxyIdle
    /\ GateIdle

\* lines 493-504: count the exchange and set up the locals of the loop
EnterLoop(counter) ==
    /\ CONTEXT_TRACKER' = counter + 1
    /\ messages' = << Message("ORIGINAL_INTENT", user_input) >>
    /\ last_sent_index' = 0
    /\ seen_inspects' = {}
    /\ uploaded_files' = {}
    /\ step' = 0
    /\ pc' = "loop"
    /\ UNCHANGED <<user_input, ret, stdout, runs, staged, lastReply, changes>>
    /\ UNCHANGED <<ctlvars, proxyvars, gatevars>>

\* ai_terminal, LLM_RESPONSE_ID is None: init_ai_terminal sends the system prompt
\* and OS_INFO and swallows whatever the call raises
BeginInit ==
    /\ pc = "idle"
    /\ LLM_RESPONSE_ID = NoHandle
    /\ \E r \in FailedReplies \cup BlockReplies :
          LLM_RESPONSE_ID' = call_llm(r, LLM_RESPONSE_ID, NewId).id
    /\ requests' = Append(requests, Request("init", LLM_RESPONSE_ID, 0, 0))
    /\ EnterLoop(CONTEXT_TRACKER)

\* ai_terminal, CONTEXT_TRACKER > MAX_CONTEXT_LENGTH: _summarize_and_reset, whose
\* two remote calls are not guarded
BeginReset ==
    /\ pc = "idle"
    /\ LLM_RESPONSE_ID # NoHandle
    /\ CONTEXT_TRACKER > MAX_CONTEXT_LENGTH
    /\ \/ /\ requests' = requests \o << Request("summary", LLM_RESPONSE_ID, 0, 0),
                                        Request("reseed", NoHandle, 0, 0) >>
          /\ LLM_RESPONSE_ID' = NewId + 1
          /\ EnterLoop(0)
       \/ /\ \E sent \in { << Request("summary", LLM_RESPONSE_ID, 0, 0) >>,
                           << Request("summary", LLM_RESPONSE_ID, 0, 0),
                              Request("reseed", NoHandle, 0, 0) >> } :
                requests' = requests \o sent
          /\ pc' = "raised"
          /\ UNCHANGED <<LLM_RESPONSE_ID, CONTEXT_TRACKER, user_input, messages,
                         last_sent_index, seen_inspects, uploaded_files, step, ret,
                         stdout, runs, staged, lastReply, changes>>
          /\ UNCHANGED <<ctlvars, proxyvars, gatevars>>

\* ai_terminal with a retained handle within the exchange limit
BeginPlain ==
    /\ pc = "idle"
    /\ LLM_RESPONSE_ID # NoHandle
    /\ CONTEXT_TRACKER <= MAX_CONTEXT_LENGTH
    /\ UNCHANGED <<LLM_RESPONSE_ID, requests>>
    /\ EnterLoop(CONTEXT_TRACKER)

Called(r) == call_llm(r.reply, LLM_RESPONSE_ID, NewId)

\* the decision call without line 513: the cursor stays where it was
DecideKeepsCursor(r) ==
    /\ pc = "loop"
    /\ step < MAX_STEPS
    /\ step = 0 \/ changes < MaxChanges \/ r.reply = lastReply
    /\ lastReply' = r.reply
    /\ changes' = IF step = 0 \/ r.reply = lastReply THEN changes ELSE changes + 1
    /\ requests' = Append(requests, Request("decide", LLM_RESPONSE_ID,
                                            last_sent_index + 1, Len(messages)))
    /\ LLM_RESPONSE_ID' = Called(r).id
    /\ last_sent_index' = last_sent_index
    /\ UNCHANGED <<CONTEXT_TRACKER, user_input>>
    /\ UNCHANGED <<ctlvars, proxyvars, gatevars>>

\* lines 507-517: one decision call and the parse of its reply
Decide(r) ==
    /\ pc = "loop"
    /\ step < MAX_STEPS
    /\ step = 0 \/ changes < MaxChanges \/ r.reply = lastReply
    /\ lastReply' = r.reply
    /\ changes' = IF step = 0 \/ r.reply = lastReply THEN changes ELSE changes + 1
    /\ requests' = Append(requests, Request("decide", LLM_RESPONSE_ID,
                                            last_sent_index + 1, Len(messages)))
    /\ LLM_RESPONSE_ID' = Called(r).id
    /\ last_sent_index' = Len(messages)
    /\ UNCHANGED <<CONTEXT_TRACKER, user_input>>
    /\ UNCHANGED <<ctlvars, proxyvars, gatevars>>

\* lines 515-517: the parse of a reply: it does not depend on the state, so
\* each reply is parsed once.  r below is a parsed reply, r.reply the reply.
Parse(reply) ==
    LET c == call_llm(reply, NoHandle, NoHandle) IN
    [reply |-> reply,
     isdict |-> c.isdict,
     action |-> IF c.isdict THEN ActionTag(c.response) ELSE <<>>,
     commands |-> IF c.isdict THEN normalize_commands(c.response.commands) ELSE <<>>,
     reason |-> c.response.reason]

Parsed == { Parse(reply) : reply \in Replies }

IsDict(r) == r.isdict

Action(r) == r.action

Commands(r) == r.commands

ReasonOf(r) == r.reason

\* the end of a round that is not counted against MAX_STEPS
NextRoundUncounted(msg) ==
    /\ messages' = Append(messages, msg)
    /\ step' = step
    /\ pc' = "loop"
    /\ ret' = ret

\* the end of a round that does not return: the next round, or line 583
NextRound(msg) ==
    /\ messages' = Append(messages, msg)
    /\ step' = step + 1
    /\ IF step + 1 = MAX_STEPS
       THEN pc' = "returned" /\ ret' = safe_echo(<<"Agent timed out.">>)
       ELSE pc' = "loop" /\ ret' = ret

\* a round that returns text
Return(text) ==
    /\ pc' = "returned"
    /\ ret' = text
    /\ step' = step + 1
    /\ UNCHANGED messages

\* llm_response.get on a value that is no dict raises AttributeError
RaiseRound(r) ==
    /\ ~IsDict(r)
    /\ Decide(r)
    /\ pc' = "raised"
    /\ step' = step + 1
    /\ UNCHANGED <<messages, seen_inspects, uploaded_files, ret, stdout, runs, staged>>

InspectRound(r) ==
    /\ IsDict(r)
    /\ Action(r) = TagInspect
    /\ Decide(r)
    /\ LET acc == InspectLoop(Commands(r), [seen |-> seen_inspects, out |-> <<>>,
                                            runs |-> runs, stdout |-> stdout])
       IN  /\ seen_inspects' = acc.seen
           /\ runs' = acc.runs
           /\ stdout' = acc.stdout
           /\ NextRound(Message("INSPECTION_RESULT", acc.out))
    /\ UNCHANGED <<uploaded_files, staged>>

UploadRound(r) ==
    /\ IsDict(r)
    /\ Action(r) = TagUpload
    /\ Decide(r)
    /\ LET paths == UploadSlice(Commands(r)) IN
       \E refused \in SUBSET { n \in 1..Len(paths) : _validate_file(paths[n]).ok } :
          LET accepted == [n \in 1..Len(paths) |-> n \notin refused]
              acc == UploadLoop(paths, accepted, 1,
                                [uploaded |-> uploaded_files, payload |-> <<>>,
                                 staged |-> staged, stdout |-> stdout])
          IN  /\ uploaded_files' = acc.uploaded
              /\ staged' = acc.staged
              /\ stdout' = acc.stdout
              /\ NextRound(Message("UPLOADED_FILES", acc.payload))
    /\ UNCHANGED <<seen_inspects, runs>>

AskRound(r) ==
    /\ IsDict(r)
    /\ Action(r) = TagAsk
    /\ Decide(r)
    /\ Return(_interactive_ask_snippet(user_input, ReasonOr(ReasonOf(r), <<>>)))
    /\ UNCHANGED <<seen_inspects, uploaded_files, stdout, runs, staged>>

ReviewRound(r) ==
    /\ IsDict(r)
    /\ Action(r) = TagReview
    /\ Decide(r)
    /\ Return(_interactive_review_snippet(ReasonOr(ReasonOf(r), <<>>), Commands(r)))
    /\ UNCHANGED <<seen_inspects, uploaded_files, stdout, runs, staged>>

ExecuteRound(r) ==
    /\ IsDict(r)
    /\ Action(r) = TagExecute
    /\ Decide(r)
    /\ LET acc == ExecuteBranch(Commands(r))
       IN  /\ runs' = acc.runs
           /\ stdout' = acc.stdout
           /\ Return(acc.ret)
    /\ UNCHANGED <<seen_inspects, uploaded_files, staged>>

BlockRound(r) ==
    /\ IsDict(r)
    /\ Action(r) = TagBlock
    /\ Decide(r)
    /\ Return(safe_echo(ReasonOr(ReasonOf(r), <<"Action blocked.">>)))
    /\ UNCHANGED <<seen_inspects, uploaded_files, stdout, runs, staged>>

\* an unknown tag answered as a Block action is: the invocation returns
InvalidRoundBlocks(r) ==
    /\ IsDict(r)
    /\ Action(r) \notin {TagInspect, TagUpload, TagAsk, TagReview, TagExecute, TagBlock}
    /\ Decide(r)
    /\ Return(safe_echo(<<"Action blocked.">>))
    /\ UNCHANGED <<seen_inspects, uploaded_files, stdout, runs, staged>>

\* lines 580-581: none of the six tags
InvalidRound(r) ==
    /\ IsDict(r)
    /\ Action(r) \notin {TagInspect, TagUpload, TagAsk, TagReview, TagExecute, TagBlock}
    /\ Decide(r)
    /\ NextRound(Message("INVALID_ACTION", <<"Return a valid action enum.">>))
    /\ UNCHANGED <<seen_inspects, uploaded_files, stdout, runs, staged>>

Round(r) ==
    \/ RaiseRound(r)
    \/ InspectRound(r)
    \/ UploadRound(r)
    \/ AskRound(r)
    \/ ReviewRound(r)
    \/ ExecuteRound(r)
    \/ BlockRound(r)
    \/ InvalidRound(r)

Next == BeginInit \/ BeginReset \/ BeginPlain \/ \E r \in Parsed : Round(r)

Spec == Init /\ [][Next]_vars

\* ------------------------------------------------------------------------
\* One integrator over many calls of ai_terminal: the class attributes
\* LLM_RESPONSE_ID and CONTEXT_TRACKER outlive a call, its locals do not
\* ------------------------------------------------------------------------

\* the exchange counter up to which calls are followed
MaxCounter == 24

\* a new integrator: lines 12-13
InitSessions ==
    /\ Init
    /\ LLM_RESPONSE_ID = NoHandle
    /\ CONTEXT_TRACKER = 0

\* lines 505-583 as far as the class attributes go: the loop makes its
\* decision calls, call_llm retains the id of a response if one arrived, and
\* ai_terminal returns; the next call starts with new locals
LoopEnds ==
    /\ pc = "loop"
    /\ CONTEXT_TRACKER < MaxCounter
    /\ \E arrived \in BOOLEAN :
          LLM_RESPONSE_ID' = IF arrived THEN NewId ELSE LLM_RESPONSE_ID
    /\ pc' = "idle"
    /\ messages' = <<>>
    /\ requests' = <<>>
    /\ UNCHANGED <<CONTEXT_TRACKER, user_input, last_sent_index, seen_inspects,
                   uploaded_files, step, ret, stdout, runs, staged, lastReply, changes>>
    /\ UNCHANGED <<ctlvars, proxyvars, gatevars>>

NextSessions == BeginInit \/ BeginReset \/ BeginPlain \/ LoopEnds

SpecSessions == InitSessions /\ [][NextSessions]_vars

\* ------------------------------------------------------------------------
\* The shell hook and the entry point it calls (thinkshellctl.main)
\* ------------------------------------------------------------------------

LowerChar(c) ==
    IF c \in Upper THEN LowerSeq[CHOOSE n \in 1..26 : UpperSeq[n] = c] ELSE c

\* str.lower()
StrLower(s) == [n \in 1..Len(s) |-> LowerChar(s[n])]

\* sub in s
Contains(s, sub) == re_search(<<Lit(sub)>>, s)

\* thinkshellctl.call_llm_fix: the fixes it knows without a provider
call_llm_fix(bad_cmd) ==
    LET cmd == StrLower(bad_cmd) IN
    IF Contains(cmd, <<"l","i","s","t">>) /\ Contains(cmd, <<"f","i","l","e","s">>)
    THEN <<"echo ", "'", "Auto-running ls -la", "'", ";", " ", "l","s"," ","-","l","a">>
    ELSE IF Contains(cmd, <<"i","p">>) /\ Contains(cmd, <<"a","d","d","r","e","s","s">>)
    THEN <<"i","f","c","o","n","f","i","g"," ","|"," ","g","r","e","p"," ","i","n","e","t">>
    ELSE <<>>

\* what the provider's client does: it answers with a text, cannot be imported,
\* or raises
Answer(text) == [kind |-> "text", text |-> text]

ImportFails == [kind |-> "import_error", text |-> <<>>]

Raises == [kind |-> "exception", text |-> <<"Connection error.">>]

ProviderOutcomes ==
    { Answer(<<"l","s"," ","-","l","a">>),
      Answer(<<" ","l","s","\n">>),
      Answer(CmdRmRf),
      Answer(<<>>),
      ImportFails,
      Raises }

ProviderReply(outcome, package, name) ==
    CASE outcome.kind = "text" -> StrStrip(outcome.text)
      [] outcome.kind = "import_error" ->
           <<"echo ", "'", " Error: pip install ", package, "'">>
      [] OTHER -> <<"echo ", "'", " ", name, " Error: ">> \o outcome.text \o <<"'">>

\* llm_engine.get_bash_command with the keys of env set
get_bash_command(env, outcome) ==
    IF "OPENAI_API_KEY" \in env THEN ProviderReply(outcome, "openai", "OpenAI")
    ELSE IF "GOOGLE_API_KEY" \in env
    THEN ProviderReply(outcome, "google-generativeai", "Gemini")
    ELSE IF "ANTHROPIC_API_KEY" \in env
    THEN ProviderReply(outcome, "anthropic", "Anthropic")
    ELSE <<"echo ", "'", " No API Key found. Run with --openai_key etc.", "'">>

ModeFail == <<"F","A","I","L">>

ScriptPath == <<"thinkshellctl.py">>

\* the command lines bash could not resolve, as the words the hook receives
FailedWords ==
    { << <<"l","i","s","t">>, <<"f","i","l","e","s">> >>,
      << <<"L","i","s","t">>, <<"a","l","l">>, <<"F","i","l","e","s">> >>,
      << <<"m","y">>, <<"i","p">>, <<"a","d","d","r","e","s","s">> >>,
      << <<"w","i","p","e">>, <<"d","i","s","k">> >>,
      << <<"l","s","x">> >> }

\* pty_shell.py lines 64-67: full_cmd="$cmd $args" with args="$@"
full_cmd(words) == Head(words) \o <<" ">> \o Join(<<" ">>, Tail(words))

FailedCommands == { full_cmd(words) : words \in FailedWords }

\* line 71: the argument vector of the hook's call
HookArgv(words) == <<ScriptPath, ModeFail, full_cmd(words)>>

ArgVectors ==
    { <<ScriptPath>>, <<ScriptPath, ModeFail>> }
        \cup { <<ScriptPath, ModeFail, c>> : c \in FailedCommands }
        \cup { <<ScriptPath, <<"F","I","X">>, c>> : c \in FailedCommands }

InitCtl ==
    /\ argv \in ArgVectors
    /\ failed \in {<<>>} \cup { words \in FailedWords : HookArgv(words) = argv }
    /\ calls = 0
    /\ status = 0
    /\ shell_out = <<>>
    /\ llm_engine \in BOOLEAN
    /\ environ \in SUBSET {"OPENAI_API_KEY", "GOOGLE_API_KEY", "ANTHROPIC_API_KEY"}
    /\ ctl = "start"
    /\ agent_response = <<>>
    /\ LLM_RESPONSE_ID = NoHandle
    /\ CONTEXT_TRACKER = 0
    /\ user_input = <<>>
    /\ pc = "idle"
    /\ messages = <<>>
    /\ last_sent_index = 0
    /\ seen_inspects = {}
    /\ uploaded_files = {}
    /\ step = 0
    /\ ret = <<>>
    /\ stdout = <<>>
    /\ runs = <<>>
    /\ staged = <<>>
    /\ requests = <<>>
    /\ lastReply = NoReply
    /\ changes = 0
    /\ ProxyIdle
    /\ GateIdle

\* the hook that evaluates whatever it captured
HookAlwaysEval(printed) ==
    /\ ctl = "start"
    /\ calls' = calls + 1
    /\ agent_response' = RStrip(printed)
    /\ ctl' = "evaluated"
    /\ status' = 0
    /\ shell_out' = <<>>
    /\ UNCHANGED <<argv, llm_engine, environ, failed>>
    /\ UNCHANGED <<loopvars, proxyvars, gatevars>>

\* the hook after agent_response=$("$TS_PY" "$TS_CTL" "FAIL" "$full_cmd"), which
\* drops the trailing newlines of what main printed;
\* lines 72-81: eval and status 0, or the not-found message and status 127; a
\* caller other than the hook (failed = <<>>) captures the output the same way
\* and has no fallback
Hook(printed) ==
    /\ ctl = "start"
    /\ calls' = calls + 1
    /\ agent_response' = RStrip(printed)
    /\ IF RStrip(printed) # <<>>
       THEN ctl' = "evaluated" /\ status' = 0 /\ shell_out' = <<>>
       ELSE IF failed # <<>>
       THEN /\ ctl' = "not_found"
            /\ status' = 127
            /\ shell_out' = <<"bash: ">> \o Head(failed) \o <<": command not found">>
       ELSE ctl' = "exited" /\ status' = 0 /\ shell_out' = <<>>
    /\ UNCHANGED <<argv, llm_engine, environ, failed>>
    /\ UNCHANGED <<loopvars, proxyvars, gatevars>>

\* main, lines 30-31
MainFewArgs ==
    /\ Len(argv) < 3
    /\ Hook(<<>>)

\* main, line 36: a mode other than FAIL prints nothing
MainOtherMode ==
    /\ Len(argv) >= 3
    /\ argv[2] # ModeFail
    /\ Hook(<<>>)

\* main, lines 37-39: the reply of llm_engine is printed as it is
MainEngine ==
    /\ Len(argv) >= 3
    /\ argv[2] = ModeFail
    /\ llm_engine
    /\ \E outcome \in ProviderOutcomes :
          LET fix == get_bash_command(environ, outcome)
          IN  Hook(<<"echo ", "'", "Agent: ">> \o fix \o <<"'", ";", " ">> \o fix \o NL)

\* main, lines 40-42
MainOffline ==
    /\ Len(argv) >= 3
    /\ argv[2] = ModeFail
    /\ ~llm_engine
    /\ Hook(call_llm_fix(argv[3]) \o NL)

NextCtl == MainFewArgs \/ MainOtherMode \/ MainEngine \/ MainOffline

SpecCtl == InitCtl /\ [][NextCtl]_vars

\* ------------------------------------------------------------------------
\* The proxy: main.main (lines 225-244) and io_loop.start_io_loop
\* ------------------------------------------------------------------------

\* chunks forwarded in one session, and keyboard interrupts raised in it
MaxForward == 2

MaxInterrupts == 2

\* main.py lines 127-133: the flags set_manual_raw clears
RawCleared ==
    {"IGNBRK", "BRKINT", "PARMRK", "ISTRIP", "INLCR", "IGNCR", "ICRNL", "IXON",
     "OPOST", "ECHO", "ICANON", "IEXTEN", "ISIG"}

\* main.py lines 124-136, on the attributes tcgetattr returns
set_manual_raw(attrs) == Attrs((attrs.flags \ RawCleared) \cup {"CS8"}, 1, 0)

\* a restore that leaves the terminal as it is
restore_nothing(ok) ==
    /\ tty' = tty
    /\ restores' = restores + 1
    /\ failures' = IF ok THEN failures ELSE failures + 1

\* main.py lines 138-141: tcsetattr with the saved attributes; an error it
\* raises is swallowed
restore(ok) ==
    /\ tty' = IF ok THEN old_attrs ELSE tty
    /\ restores' = restores + 1
    /\ failures' = IF ok THEN failures ELSE failures + 1

\* the window sizes the terminal can have, and how often it is resized
Geometries ==
    { Geometry(40, 120, 800, 600), Geometry(0, 0, 0, 0), Geometry(0, 132, 0, 0) }

MaxResizes == 1

winvars == <<term_size, stdout_tty, pty_size, winch, resizes>>

\* winsize.py lines 22-23
Normalized(size) ==
    [size EXCEPT !.cols = IF size.cols = 0 THEN 80 ELSE size.cols,
                 !.rows = IF size.rows = 0 THEN 24 ELSE size.rows]

\* winsize.py lines 7-30: TIOCGWINSZ on standard output, the defaults for
\* zero dimensions, TIOCSWINSZ on the PTY; an Exception (standard output is
\* no terminal) is swallowed and leaves the PTY as it is
set_pty_size(current) == IF stdout_tty THEN Normalized(term_size) ELSE current

InitProxy ==
    /\ GateIdle
    /\ ppc = "start"
    /\ tty \in {TtySane, TtyNoEcho, TtyTimed}
    /\ old_attrs = NoAttrs
    /\ error = "none"
    /\ cause = "none"
    /\ restores = 0
    /\ failures = 0
    /\ exit_status = 0
    /\ running = FALSE
    /\ events = <<>>
    /\ to_pty = <<>>
    /\ to_stdout = <<>>
    /\ reads = <<>>
    /\ ended = FALSE
    /\ sigints = 0
    /\ term_size \in Geometries
    /\ stdout_tty \in BOOLEAN
    /\ pty_size = Geometry(0, 0, 0, 0)
    /\ winch = FALSE
    /\ resizes = 0
    /\ LLM_RESPONSE_ID = NoHandle
    /\ CONTEXT_TRACKER = 0
    /\ user_input = <<>>
    /\ pc = "idle"
    /\ messages = <<>>
    /\ last_sent_index = 0
    /\ seen_inspects = {}
    /\ uploaded_files = {}
    /\ step = 0
    /\ ret = <<>>
    /\ stdout = <<>>
    /\ runs = <<>>
    /\ staged = <<>>
    /\ requests = <<>>
    /\ lastReply = NoReply
    /\ changes = 0
    /\ argv = <<>>
    /\ llm_engine = FALSE
    /\ environ = {}
    /\ ctl = "start"
    /\ agent_response = <<>>
    /\ failed = <<>>
    /\ calls = 0
    /\ status = 0
    /\ shell_out = <<>>

\* one statement of main's try block or of start_io_loop: it completes, or
\* raises; "except Exception" (line 240) takes an Exception, and a
\* KeyboardInterrupt passes it and reaches "finally" (line 243)
MainStep(at, outcome, next, failing) ==
    /\ ppc = at
    /\ IF outcome = "ok"
       THEN ppc' = next /\ UNCHANGED <<error, cause>>
       ELSE /\ ppc' = IF outcome = "Exception" THEN "except" ELSE "finally"
            /\ error' = outcome
            /\ cause' = failing
    /\ UNCHANGED <<old_attrs, restores, failures, exit_status, events, to_pty,
                   to_stdout, ended, sigints>>
    /\ UNCHANGED <<term_size, stdout_tty, winch, resizes>>
    /\ UNCHANGED <<loopvars, ctlvars, gatevars, reads>>

\* lines 226-227, 232: tcgetattr returns, and restore is registered with atexit
Capture ==
    /\ ppc = "start"
    /\ old_attrs' = tty
    /\ ppc' = "captured"
    /\ UNCHANGED <<tty, error, cause, restores, failures, exit_status, running,
                   events, to_pty, to_stdout, ended, sigints>>
    /\ UNCHANGED <<loopvars, ctlvars, gatevars, winvars, reads>>

\* lines 228-230: tcgetattr raises: a message, and main returns
NotATerminal ==
    /\ ppc = "start"
    /\ cause' = "tcgetattr"
    /\ ppc' = "atexit"
    /\ UNCHANGED <<tty, old_attrs, error, restores, failures, exit_status, running,
                   events, to_pty, to_stdout, ended, sigints>>
    /\ UNCHANGED <<loopvars, ctlvars, gatevars, winvars, reads>>

\* line 235
SpawnShell ==
    \E outcome \in {"ok", "Exception", "KeyboardInterrupt"} :
        /\ MainStep("captured", outcome, "spawned", "spawn")
        /\ UNCHANGED <<tty, running, pty_size>>

\* line 236: set_pty_size swallows every Exception (winsize.py lines 28-30)
SetPtySize ==
    \E outcome \in {"ok", "KeyboardInterrupt"} :
        /\ MainStep("spawned", outcome, "sized", "resize")
        /\ pty_size' = IF outcome = "ok" THEN set_pty_size(pty_size) ELSE pty_size
        /\ UNCHANGED <<tty, running>>

\* line 237: signals.setup_signals installs the SIGWINCH handler, no other
SetupSignals ==
    \E outcome \in {"ok", "KeyboardInterrupt"} :
        /\ MainStep("sized", outcome, "handlers", "signals")
        /\ UNCHANGED <<tty, running, pty_size>>

\* line 238: tcgetattr or tcsetattr may raise termios.error
SetManualRaw ==
    \E outcome \in {"ok", "Exception", "KeyboardInterrupt"} :
        /\ MainStep("handlers", outcome, "raw", "raw")
        /\ tty' = IF outcome = "ok" THEN set_manual_raw(tty) ELSE tty
        /\ UNCHANGED <<running, pty_size>>

\* line 239 and io_loop.py lines 10-18: the selector and running = True
StartIoLoop ==
    \E outcome \in {"ok", "Exception", "KeyboardInterrupt"} :
        /\ MainStep("raw", outcome, "top", "forwarding")
        /\ running' = (outcome = "ok")
        /\ UNCHANGED <<tty, pty_size>>

\* io_loop.py line 19: the test of the while loop; start_io_loop returns when
\* running is False, and main goes on to "finally"
LoopTest ==
    /\ MainStep("top", "ok", IF running THEN "select" ELSE "finally", "none")
    /\ UNCHANGED <<tty, running, pty_size>>

\* what select reports ready, in the order the loop goes through it
Batches == { <<"stdin">>, <<"pty">>, <<"stdin", "pty">>, <<"pty", "stdin">> }

\* line 21
Select ==
    /\ ppc = "select"
    /\ \E batch \in Batches : events' = batch
    /\ ppc' = "events"
    /\ UNCHANGED <<tty, old_attrs, error, cause, restores, failures, exit_status,
                   running, to_pty, to_stdout, ended, sigints>>
    /\ UNCHANGED <<loopvars, ctlvars, gatevars, winvars, reads>>

\* what os.read gives for a ready stream, and what os.write does
ReadData ==
    { [kind |-> "data", data |-> "k"], [kind |-> "data", data |-> "^C"],
      [kind |-> "data", data |-> "ls"] }

\* the outcomes of os.write(fd, data): all of data is accepted, fewer bytes
\* are accepted (only if data has more than one byte), or the call raises
WriteOutcomes(data) ==
    {"ok", "eio", "oserror"} \cup (IF data = "ls" THEN {"short"} ELSE {})

\* the bytes that os.write accepts: all of them, or a shorter prefix
Accepted(data, w) == IF w = "short" /\ data = "ls" THEN "l" ELSE data

\* lines 30 and 38: os.write(fd, data) as a statement: what was accepted is
\* on the stream, and the number os.write returned is dropped
Write(stream, data, w) == Append(stream, Accepted(data, w))

ReadOutcomes ==
    ReadData \cup { [kind |-> k, data |-> ""] : k \in {"eof", "eio", "oserror"} }

Forwarded == Len(to_pty) + Len(to_stdout)

\* after one event: the next one of the batch, or back to the loop test
AfterEvent(rest) ==
    /\ events' = rest
    /\ ppc' = IF rest = <<>> THEN "top" ELSE "events"

\* lines 22-46: one event of the batch
HandleEvent ==
    /\ ppc = "events"
    /\ events # <<>>
    /\ \E r \in ReadOutcomes, w \in {"ok", "short", "eio", "oserror"} :
          /\ r.kind = "data" => Forwarded < MaxForward /\ w \in WriteOutcomes(r.data)
          /\ r.kind # "data" => w = "ok"
          /\ reads' = IF r.kind = "data"
                      THEN Append(reads, [from |-> Head(events), data |-> r.data])
                      ELSE reads
          /\ CASE r.kind = "data" /\ w \in {"ok", "short"} ->
                    /\ IF Head(events) = "stdin"
                       THEN to_pty' = Write(to_pty, r.data, w) /\ UNCHANGED to_stdout
                       ELSE to_stdout' = Write(to_stdout, r.data, w) /\ UNCHANGED to_pty
                    /\ AfterEvent(Tail(events))
                    /\ UNCHANGED <<running, ended, error, cause>>
               [] r.kind = "eof" ->
                    /\ running' = FALSE
                    /\ ended' = TRUE
                    /\ events' = <<>>
                    /\ ppc' = "top"
                    /\ UNCHANGED <<to_pty, to_stdout, error, cause>>
               [] r.kind = "eio" \/ (r.kind = "data" /\ w = "eio") ->
                    /\ running' = FALSE
                    /\ ended' = (ended \/ r.kind = "eio")
                    /\ AfterEvent(Tail(events))
                    /\ UNCHANGED <<to_pty, to_stdout, error, cause>>
               [] OTHER ->
                    /\ ppc' = "except"
                    /\ error' = "Exception"
                    /\ cause' = "forwarding"
                    /\ UNCHANGED <<running, ended, events, to_pty, to_stdout>>
    /\ UNCHANGED <<tty, old_attrs, restores, failures, exit_status, sigints>>
    /\ UNCHANGED <<loopvars, ctlvars, gatevars, winvars>>

\* lines 48-52: a KeyboardInterrupt raised inside the try block is passed
\* over and the loop goes on; one raised at the loop test leaves start_io_loop
Interrupt ==
    /\ ppc \in {"top", "select", "events"}
    /\ sigints < MaxInterrupts
    /\ sigints' = sigints + 1
    /\ IF ppc = "top"
       THEN /\ ppc' = "finally"
            /\ error' = "KeyboardInterrupt"
            /\ cause' = "interrupt"
            /\ UNCHANGED events
       ELSE /\ ppc' = "top"
            /\ events' = <<>>
            /\ UNCHANGED <<error, cause>>
    /\ UNCHANGED <<tty, old_attrs, restores, failures, exit_status, running, to_pty,
                   to_stdout, ended>>
    /\ UNCHANGED <<loopvars, ctlvars, gatevars, winvars, reads>>

\* main.py lines 240-242
Except ==
    /\ ppc = "except"
    /\ \E ok \in BOOLEAN : restore(ok)
    /\ error' = "none"
    /\ ppc' = "finally"
    /\ UNCHANGED <<old_attrs, cause, exit_status, running, events, to_pty, to_stdout,
                   ended, sigints>>
    /\ UNCHANGED <<loopvars, ctlvars, gatevars, winvars, reads>>

\* lines 243-244
Finally ==
    /\ ppc = "finally"
    /\ \E ok \in BOOLEAN : restore(ok)
    /\ ppc' = "atexit"
    /\ UNCHANGED <<old_attrs, error, cause, exit_status, running, events, to_pty,
                   to_stdout, ended, sigints>>
    /\ UNCHANGED <<loopvars, ctlvars, gatevars, winvars, reads>>

\* the interpreter's exit: the handler registered at line 232, then status 0
\* after main returned, or the status of an unhandled KeyboardInterrupt
AtExit ==
    /\ ppc = "atexit"
    /\ IF old_attrs # NoAttrs
       THEN \E ok \in BOOLEAN : restore(ok)
       ELSE UNCHANGED <<tty, restores, failures>>
    /\ exit_status' = IF error = "KeyboardInterrupt" THEN 130 ELSE 0
    /\ ppc' = "exited"
    /\ UNCHANGED <<old_attrs, error, cause, running, events, to_pty, to_stdout,
                   ended, sigints>>
    /\ UNCHANGED <<loopvars, ctlvars, gatevars, winvars, reads>>

\* SIGTERM, for which signals.py installs no handler: the process ends at
\* once, without "finally" and without the atexit handler
Terminate ==
    /\ ppc \notin {"start", "exited"}
    /\ ppc' = "exited"
    /\ cause' = "SIGTERM"
    /\ exit_status' = 143
    /\ UNCHANGED <<tty, old_attrs, error, restores, failures, running, events, to_pty,
                   to_stdout, ended, sigints>>
    /\ UNCHANGED <<loopvars, ctlvars, gatevars, winvars, reads>>

\* where the handler of signals.py line 9 is installed and the process runs
HandlerInstalled ==
    \/ ppc \in {"handlers", "raw", "top", "select", "events"}
    \/ /\ ppc \in {"except", "finally", "atexit"}
       /\ cause \notin {"tcgetattr", "spawn", "resize", "signals"}

\* the user resizes the terminal window; the kernel raises SIGWINCH, which is
\* ignored as long as no handler is installed
TerminalResized ==
    /\ ppc \notin {"start", "exited"}
    /\ resizes < MaxResizes
    /\ resizes' = resizes + 1
    /\ term_size' \in Geometries \ {term_size}
    /\ winch' = (winch \/ HandlerInstalled)
    /\ UNCHANGED <<ppc, tty, old_attrs, error, cause, restores, failures, exit_status,
                   running, events, to_pty, to_stdout, ended, sigints, stdout_tty,
                   pty_size>>
    /\ UNCHANGED <<loopvars, ctlvars, gatevars, reads>>

\* signals.py lines 5-6: the SIGWINCH handler
Resize ==
    /\ HandlerInstalled
    /\ winch
    /\ winch' = FALSE
    /\ pty_size' = set_pty_size(pty_size)
    /\ UNCHANGED <<ppc, tty, old_attrs, error, cause, restores, failures, exit_status,
                   running, events, to_pty, to_stdout, ended, sigints, term_size,
                   stdout_tty, resizes>>
    /\ UNCHANGED <<loopvars, ctlvars, gatevars, reads>>

NextProxy ==
    \/ Capture \/ NotATerminal \/ SpawnShell \/ SetPtySize \/ SetupSignals
    \/ SetManualRaw \/ StartIoLoop \/ LoopTest \/ Select \/ HandleEvent
    \/ Interrupt \/ Except \/ Finally \/ AtExit \/ Terminate
    \/ TerminalResized \/ Resize

SpecProxy == InitProxy /\ [][NextProxy]_vars

\* ------------------------------------------------------------------------
\* The two predicates of the safety gate, each called once on a text
\* ------------------------------------------------------------------------

\* command texts: a fragment with text before it and after it
GatePrefixes == { <<>>,
                  <<"s","u","d","o"," ">>,
                  <<"e","c","h","o"," ","h","i",";"," ">> }

GateFragments == { <<"r","m"," ","-","r","f">>,
                   <<"m","k","f","s">>,
                   <<"s","h","u","t","d","o","w","n">>,
                   <<":","(",")","{"," ",":","|",":","&"," ","}",";",":">>,
                   <<">"," ","/","d","e","v","/","s","d","a">>,
                   <<"l","s">> }

GateSuffixes == { <<>>,
                  <<" ","/">>,
                  <<" ","n","o","w">>,
                  <<"v">> }

GateCommands == { a \o b \o c : a \in GatePrefixes, b \in GateFragments, c \in GateSuffixes }

\* paths: a directory and a file name
GateDirs == { <<>>,
              <<"/","h","/">>,
              <<"/","h","/",".","s","s","h","/">>,
              <<"C",":","\\","u","\\",".","a","w","s","\\">>,
              <<"/","h","/",".","g","n","u","p","g","/">>,
              <<"/","h","/","x",".","s","s","h","/">> }

GateNames == { <<"c","o","n","f","i","g">>,
               <<"a",".","p","e","m">>,
               <<"b",".","k","e","y">>,
               <<"i","d","_","r","s","a">>,
               <<"i","d","_","e","d","2","5","5","1","9">>,
               <<".","e","n","v">>,
               <<"x",".","e","n","v">>,
               <<"i","d","_","r","s","a",".","p","u","b">> }

GatePaths == { d \o f : d \in GateDirs, f \in GateNames }

InitGate ==
    /\ probe \in GateCommands \cup GatePaths
    /\ probed = "none"
    /\ verdict = FALSE
    /\ LLM_RESPONSE_ID = NoHandle /\ CONTEXT_TRACKER = 0
    /\ user_input = <<>>
    /\ pc = "idle"
    /\ messages = <<>>
    /\ last_sent_index = 0
    /\ seen_inspects = {}
    /\ uploaded_files = {}
    /\ step = 0
    /\ ret = <<>>
    /\ stdout = <<>>
    /\ runs = <<>>
    /\ staged = <<>>
    /\ requests = <<>>
    /\ lastReply = NoReply
    /\ changes = 0
    /\ argv = <<>>
    /\ llm_engine = TRUE
    /\ environ = {}
    /\ ctl = "start"
    /\ agent_response = <<>>
    /\ failed = <<>>
    /\ calls = 0
    /\ status = 0
    /\ shell_out = <<>>
    /\ ProxyIdle

\* self.is_runtime_safe(cmd)
GateCommand ==
    /\ probed = "none"
    /\ probe \in GateCommands
    /\ verdict' = is_runtime_safe(probe)
    /\ probed' = "command"
    /\ UNCHANGED <<probe, loopvars, ctlvars, proxyvars>>

\* self._is_sensitive_upload_path(path)
GatePath ==
    /\ probed = "none"
    /\ probe \in GatePaths
    /\ verdict' = _is_sensitive_upload_path(probe)
    /\ probed' = "path"
    /\ UNCHANGED <<probe, loopvars, ctlvars, proxyvars>>

NextGate == GateCommand \/ GatePath

SpecGate == InitGate /\ [][NextGate]_vars

\* ------------------------------------------------------------------------
\* Properties
\* ------------------------------------------------------------------------

\* the tag, commands and text of the reply the last decision round received
LastAction == Action(Parse(lastReply))

LastCommands == Commands(Parse(lastReply))

Unsafe(commands) ==
    { commands[n] : n \in { m \in 1..Len(commands) : ~is_runtime_safe(commands[m]) } }

Returned(tag) == pc = "returned" /\ LastAction = tag

\* whether line is one of the lines of text
HasLine(text, line) ==
    \E n \in 1..(Len(text) + 1 - Len(line)) :
        /\ SubSeq(text, n, n + Len(line) - 1) = line
        /\ n = 1 \/ text[n - 1] = "\n"
        /\ n + Len(line) - 1 = Len(text) \/ text[n + Len(line)] = "\n"

HasChunk(text, chunk) == \E n \in 1..Len(text) : text[n] = chunk

\* what the user may type at the prompt
Affirmative == { <<"y">>, <<"Y">>, <<"y","e","s">>, <<"Y","E","S">> }

Answers == Affirmative \cup { <<"n">>, <<>>, <<"Y","e","s">>, <<"n","o">> }

BlockedText == <<"echo ", "\"", "Execution blocked by runtime safety guard.", "\"">>

TimedOutText == <<"echo ", "\"", "Agent timed out.", "\"">>

NoCommandsText == <<"echo ", "\"", "No commands provided.", "\"">>

Repeated == <<"ERROR: repeated inspection detected">>

\* C1: in the agent loop a command that fails is_runtime_safe is never passed
\* to run_command, neither by an Inspect round nor by an Execute action, and
\* is never a runnable line of the snippet a Review action returns: no line of
\* the case arm is that command, and no answer at the prompt makes it run.
C1_UnsafeNeverRuns ==
    /\ \A n \in 1..Len(runs) : is_runtime_safe(runs[n].cmd)
    /\ Returned(TagReview) =>
          \A c \in Unsafe(LastCommands) :
             /\ ~HasLine(ret, Indent \o c)
             /\ \A answer \in Answers :
                   LET ran == EvalCase(ret, answer, {})
                   IN  \A n \in 1..Len(ran) : ran[n] # c

\* an Inspect round was handed rm -rf / and ls: the first was answered with the
\* guard's observation, the second was run
C1_Witness ==
    /\ \E m \in 1..Len(messages) :
          /\ messages[m].tag = "INSPECTION_RESULT"
          /\ DictHas(messages[m].body, CmdRmRf)
          /\ DictGet(messages[m].body, CmdRmRf) = <<"BLOCKED: runtime safety guard">>
    /\ \E n \in 1..Len(runs) : runs[n].cmd = CmdLs

\* C2: whatever the decision service replies, the text the entry point prints
\* and the hook evaluates holds no command that matches a forbidden pattern.
C2_PrintedTextGated ==
    ctl = "evaluated" =>
        LET commands == ShellCommands(agent_response)
        IN  \A n \in 1..Len(commands) : is_runtime_safe(commands[n])

DecideCalls == Cardinality({ n \in 1..Len(requests) : requests[n].purpose = "decide" })

C3_Bounded ==
    /\ DecideCalls = step
    /\ step <= MAX_STEPS
    /\ pc = "loop" => step < MAX_STEPS
    /\ pc = "idle" => step = 0
    /\ (pc = "returned" /\ step = MAX_STEPS
          /\ LastAction \notin {TagAsk, TagReview, TagExecute, TagBlock})
       => ret = TimedOutText

\* C3: one invocation makes at most 12 decision calls in its loop, whatever
\* the replies; every step of the loop uses up one of the 12 rounds and ends
\* the invocation or leaves fewer rounds, so the invocation terminates; and
\* when the 12th round is no terminal action the result is "Agent timed out.".
C3_TerminatesWithin12 ==
    /\ []C3_Bounded
    /\ [][pc = "loop" =>
            /\ step' = step + 1
            /\ pc' \in {"loop", "returned", "raised"}
            /\ pc' = "loop" => step' < MAX_STEPS]_vars

\* the same Inspect reply in every one of the 12 rounds, answered from the
\* ledger after the first, ends in the timed-out message
C3_Witness ==
    /\ pc = "returned"
    /\ step = MAX_STEPS
    /\ ret = TimedOutText
    /\ LastAction = TagInspect
    /\ DecideCalls = MAX_STEPS
    /\ \A m \in 3..Len(messages) :
          /\ messages[m].tag = "INSPECTION_RESULT"
          /\ DictHas(messages[m].body, CmdEchoHi)
          /\ DictGet(messages[m].body, CmdEchoHi) = Repeated

\* C4: within one invocation no command is run twice by Inspect rounds, and a
\* command that an earlier Inspect round ran is answered with the "repeated
\* inspection" observation.
C4_InspectOnce ==
    /\ \A i, j \in 1..Len(runs) :
          (i < j /\ runs[i].via = "INSPECT" /\ runs[j].via = "INSPECT")
             => runs[i].cmd # runs[j].cmd
    /\ \A n \in 1..Len(runs) : runs[n].via = "INSPECT" => runs[n].cmd \in seen_inspects
    /\ \A m \in 2..Len(messages) :
          messages[m].tag = "INSPECTION_RESULT" =>
             \A k \in 1..Len(messages[m].body) :
                (\E n \in 1..Len(runs) :
                    /\ runs[n].via = "INSPECT"
                    /\ runs[n].cmd = messages[m].body[k][1]
                    /\ runs[n].step < m - 2)
                => messages[m].body[k][2] = Repeated

\* echo hi was inspected in the first round and asked for again in the second:
\* one run, and the second round's observation is the repeated one
C4_Witness ==
    /\ Len(messages) >= 3
    /\ messages[3].tag = "INSPECTION_RESULT"
    /\ DictHas(messages[3].body, CmdEchoHi)
    /\ DictGet(messages[3].body, CmdEchoHi) = Repeated
    /\ Cardinality({ n \in 1..Len(runs) : runs[n].cmd = CmdEchoHi }) = 1

\* C5: a Review action with an unsafe command anywhere in its list returns the
\* safety-blocked echo and nothing else: no prompt, no listing, and no command
\* that any answer could run.
C5_UnsafeReviewBlocked ==
    (Returned(TagReview) /\ Unsafe(LastCommands) # {}) =>
        /\ ret = BlockedText
        /\ ~HasChunk(ret, "Proceed? [y/N] ")
        /\ ~HasChunk(ret, "Proposed commands:")
        /\ ShellCommands(ret) = <<BlockedText>>
        /\ \A answer \in Answers : EvalCase(ret, answer, {}) = <<>>

\* the Review action whose second command is rm -rf / was answered
C5_Witness ==
    /\ Returned(TagReview)
    /\ LastCommands = <<CmdEchoHi, CmdRmRf>>
    /\ ret = BlockedText

\* the commands that run when they run in order and the first failing one ends
\* the list
FailFast(commands, fails) ==
    LET bad == { n \in 1..Len(commands) : commands[n] \in fails }
    IN  IF bad = {} THEN commands
        ELSE SubSeq(commands, 1, CHOOSE n \in bad : \A m \in bad : n <= m)

\* C6: the snippet of a Review action whose commands are all safe runs, on an
\* affirmative answer, the commands in list order up to the first failing
\* one, and on any other answer runs none of them and prints Aborted.
C6_ReviewRunsOnlyOnYes ==
    (Returned(TagReview) /\ Unsafe(LastCommands) = {}) =>
        \A answer \in Answers :
           \A fails \in SUBSET { LastCommands[n] : n \in 1..Len(LastCommands) } :
              EvalCase(ret, answer, fails) =
                 IF answer \in Affirmative THEN FailFast(LastCommands, fails)
                 ELSE << <<"echo ", "'", "Aborted.", "'">> >>

\* C7: an Execute action with an unsafe command returns the blocked message
\* that names the first unsafe command, and has run no command of the batch.
C7_ExecuteAllOrNothing ==
    (Returned(TagExecute) /\ Unsafe(LastCommands) # {}) =>
        LET first == CHOOSE n \in 1..Len(LastCommands) :
                        /\ ~is_runtime_safe(LastCommands[n])
                        /\ \A m \in 1..(n - 1) : is_runtime_safe(LastCommands[m])
        IN  /\ ret = safe_echo(<<"Execution blocked by runtime safety guard, for command : ">>
                                 \o LastCommands[first])
            /\ \A n \in 1..Len(runs) : runs[n].via # "EXECUTE"

C9_FailClosed ==
    (pc # "idle" /\ lastReply.kind \in {"transport_error", "bad_json"}) =>
        LET c == call_llm(lastReply, NoHandle, NoHandle) IN
        /\ c.isdict
        /\ ActionTag(c.response) = TagBlock
        /\ ~c.response.reason.none
        /\ c.response.reason.v[1] = "LLM Error: "
        /\ Len(c.response.reason.v) > 1
        /\ pc = "returned"
        /\ ret = <<"echo ", "\"">> \o c.response.reason.v \o <<"\"">>
        /\ requests[Len(requests)].purpose = "decide"
        /\ \A n \in 1..Len(runs) : runs[n].step < step - 1
        /\ ~ENABLED Next

\* after an Inspect round that ran a command, the next call raised
C9_Witness ==
    /\ pc = "returned"
    /\ lastReply.kind = "transport_error"
    /\ step = 2
    /\ Len(runs) = 1
    /\ ret = <<"echo ", "\"", "LLM Error: ", "Connection error.", "\"">>

\* C10: a reply that is a JSON object without "action" ends the invocation
\* with a Block message; no other decision round follows it.
C10_MissingActionBlocks ==
    (lastReply.kind = "object" /\ ~lastReply.has_action) =>
        /\ pc = "returned"
        /\ ret # TimedOutText
        /\ ret # <<>>
        /\ ret[1] = "echo "

SixTags == {TagInspect, TagUpload, TagAsk, TagReview, TagExecute, TagBlock}

InvalidMessage == Message("INVALID_ACTION", <<"Return a valid action enum.">>)

\* C11: a decision round whose reply is an object with a tag that, upper-cased
\* and stripped, is none of the six tags runs no command, prints nothing and
\* stages nothing; it appends exactly one INVALID_ACTION message, uses up one
\* round, and leaves the loop running for another decision call unless it was
\* the 12th round, in which case the invocation returns "Agent timed out.".
C11_UnknownTagLoops ==
    [][(pc = "loop" /\ Len(requests') = Len(requests) + 1
          /\ IsDict(Parse(lastReply')) /\ Action(Parse(lastReply')) \notin SixTags)
       => /\ messages' = Append(messages, InvalidMessage)
          /\ runs' = runs /\ stdout' = stdout /\ staged' = staged
          /\ seen_inspects' = seen_inspects /\ uploaded_files' = uploaded_files
          /\ step' = step + 1
          /\ IF step + 1 < MAX_STEPS
             THEN pc' = "loop" /\ ret' = ret
             ELSE pc' = "returned" /\ ret' = TimedOutText]_vars

\* twelve unknown tags in a row: twelve corrective messages, nothing run, and
\* the timed-out message
C11_Witness ==
    /\ pc = "returned"
    /\ step = MAX_STEPS
    /\ DecideCalls = MAX_STEPS
    /\ ret = TimedOutText
    /\ runs = <<>>
    /\ Len(messages) = MAX_STEPS + 1
    /\ \A m \in 2..Len(messages) : messages[m] = InvalidMessage
    /\ LastAction = <<"D","E","L","E","T","E">>

\* C12: an invocation of ai_terminal never ends in an exception that reaches
\* its caller: whatever the decision service replies and whichever remote call
\* fails, the invocation ends by returning text.
C12_NeverRaises == pc # "raised"

\* what the Ask snippet runs to obtain agentresponse, as words, in the shell
\* spawn_shell starts
AskWords(snippet) ==
    CommandWords(SubstitutedCommand(snippet), spawn_shell_env \cup AskAssigned,
                 [q |-> FALSE, cur |-> <<>>, has |-> FALSE, out |-> <<>>])

\* C15: an Ask action ends the invocation with a snippet that prints the
\* question (or the default), reads one line into TS_ANSWER, sets TS_NEW_QUERY
\* to the unchanged input followed by "\n\nUSER_ANSWER: " and the answer, and
\* runs the entry point (interpreter, controller) with the two arguments FAIL
\* and that query, evaluating the output when it is not empty.
C15_AskReinvokes ==
    Returned(TagAsk) =>
        /\ HasLine(ret, <<"read -r -p ", "'", "> ", "'", " TS_ANSWER">>)
        /\ HasLine(ret, <<"TS_FOLLOWUP=">> \o _bash_quote(user_input))
        /\ AskWords(ret) = << <<"$TS_PY">>, <<"$TS_CTL">>, <<"FAIL">>,
                              <<"$TS_NEW_QUERY">> >>

\* C16: when bash cannot resolve a command, the hook runs the entry point once,
\* with mode FAIL and the command's words joined by spaces as the one further
\* argument; it evaluates the captured text exactly when that text is not
\* empty, and otherwise echoes "bash: <cmd>: command not found" and returns 127.
C16_HookProtocol ==
    /\ calls <= 1
    /\ (failed # <<>> /\ ctl # "start") =>
          /\ calls = 1
          /\ argv = <<ScriptPath, ModeFail, full_cmd(failed)>>
          /\ ctl \in {"evaluated", "not_found"}
          /\ ctl = "evaluated" <=> agent_response # <<>>
          /\ ctl = "evaluated" => status = 0 /\ shell_out = <<>>
          /\ ctl = "not_found" =>
                /\ status = 127
                /\ shell_out = <<"bash: ">> \o Head(failed) \o <<": command not found">>

\* the hook falls back for a command the offline table does not know
C16_Witness ==
    /\ failed = << <<"l","s","x">> >>
    /\ ctl = "not_found"
    /\ status = 127
    /\ agent_response = <<>>

\* the provider keys get_bash_command looks for
ProviderKeys == {"OPENAI_API_KEY", "GOOGLE_API_KEY", "ANTHROPIC_API_KEY"}

\* C17: when the entry point is run in FAIL mode and has no fix, because no
\* provider key is set or because the offline table does not know the
\* command, it prints nothing, so that the hook falls back to the not-found
\* message and status 127.
C17_NoFixPrintsNothing ==
    (/\ failed # <<>>
     /\ ctl # "start"
     /\ \/ llm_engine /\ environ \cap ProviderKeys = {}
        \/ ~llm_engine /\ call_llm_fix(argv[3]) = <<>>)
    => agent_response = <<>> /\ ctl = "not_found" /\ status = 127

\* the proxy's process has ended on one of the paths main itself takes, after
\* tcgetattr returned the terminal's attributes
ExitedAfterCapture == ppc = "exited" /\ old_attrs # NoAttrs /\ cause # "SIGTERM"

C14_RestoredExactlyOnce == (ppc = "exited" /\ old_attrs # NoAttrs) => restores = 1

\* C18: the proxy exits with status 0 when the session ended cleanly and with
\* a non-zero status when the terminal's attributes could not be read or raw
\* mode could not be set at startup.
C18_ExitStatus ==
    ppc = "exited" =>
        /\ cause = "none" => exit_status = 0
        /\ cause \in {"tcgetattr", "raw"} => exit_status # 0

\* C19: once a read from either stream has returned end-of-file or raised an
\* I/O error, the forwarding loop forwards nothing more.
C19_NothingAfterEnd ==
    [][ended => (to_pty' = to_pty /\ to_stdout' = to_stdout)]_vars

\* C20: a keyboard interrupt raised while the proxy is forwarding leaves the
\* forwarding loop running and is passed on to the child shell through the PTY.
C20_InterruptForwarded ==
    [][sigints' = sigints + 1 =>
          /\ ppc' \in {"top", "select", "events"}
          /\ to_pty' = Append(to_pty, "^C")]_vars

\* C21: each run of the SIGWINCH handler leaves the PTY with the controlling
\* terminal's window size at that time, rows 0 replaced by 24 and columns 0 by
\* 80.
C21_ResizeRelayed ==
    [][(winch /\ ~winch') => pty_size' = Normalized(term_size)]_vars

\* the observation messages of the Upload rounds
UploadMessages == { n \in 1..Len(messages) : messages[n].tag = "UPLOADED_FILES" }

\* the paths a decision may name, those of them that exist, are regular
\* files of at most 250,000 bytes and are not sensitive, and the sensitive ones
UploadPaths ==
    {PathLog, PathKey, PathBig, PathDir, PathMissing, PathGone, PathNotes, PathQuote}

PassingPaths ==
    { p \in UploadPaths :
        LET f == FileSystem(p) IN
        /\ f.exists /\ f.isfile /\ ~f.oserror
        /\ f.size <= 250000
        /\ ~_is_sensitive_upload_path(p) }

SensitivePaths == { p \in UploadPaths : _is_sensitive_upload_path(p) }

\* C22: every path handed to client.files.create exists, is a regular file,
\* is not sensitive and has at most 250,000 bytes; a sensitive path is never
\* handed over and its entry in the round's observation is VALIDATION_FAILED
C22_StagedOnlyIfValid ==
    /\ \A n \in 1..Len(staged) : staged[n] \in PassingPaths
    /\ \A n \in UploadMessages : \A k \in 1..Len(messages[n].body) :
          /\ messages[n].body[k][1] \in UploadPaths
          /\ messages[n].body[k][1] \in SensitivePaths
                => messages[n].body[k][2] = <<"VALIDATION_FAILED">>

C22_Witness ==
    /\ \E n \in 1..Len(staged) : staged[n] = PathLog
    /\ \E n \in UploadMessages :
          /\ DictHas(messages[n].body, PathKey)
          /\ DictHas(messages[n].body, PathLog)

\* the decision calls, in the order they were made
DecideRequests == SelectSeq(requests, LAMBDA q : q.purpose = "decide")

\* how many decision calls carried the message at position k
TimesSent(k) ==
    Cardinality({ n \in 1..Len(DecideRequests) :
                    DecideRequests[n].first <= k /\ k <= DecideRequests[n].last })

\* C23 as stated: once the invocation is over every message of the log has
\* been transmitted exactly once
C23_EveryMessageSentOnce ==
    pc = "returned" => \A k \in 1..Len(messages) : TimesSent(k) = 1

\* the decision calls carry consecutive slices of the log that end at the cursor
SlicesInOrder ==
    /\ last_sent_index \in 0..Len(messages)
    /\ \A n \in 1..Len(DecideRequests) :
          /\ DecideRequests[n].first = IF n = 1 THEN 1 ELSE DecideRequests[n-1].last + 1
          /\ DecideRequests[n].last >= DecideRequests[n].first - 1
    /\ DecideRequests # <<>> =>
          DecideRequests[Len(DecideRequests)].last = last_sent_index
    /\ DecideRequests = <<>> => last_sent_index = 0
    /\ \A k \in 1..Len(messages) :
          TimesSent(k) = IF k <= last_sent_index THEN 1 ELSE 0

\* C23: the log only grows at its end, the cursor never moves back and stays
\* within the log, each decision call carries exactly the messages past the
\* cursor and moves the cursor to the end of the log; so a message is sent at
\* most once, in log order, and exactly once if a decision call follows it
C23_CursorLog ==
    [][ /\ Len(messages') >= Len(messages)
        /\ SubSeq(messages', 1, Len(messages)) = messages
        /\ last_sent_index' >= last_sent_index
        /\ requests' # requests /\ pc = "loop" =>
              /\ last_sent_index' = Len(messages)
              /\ requests'[Len(requests')].first = last_sent_index + 1
              /\ requests'[Len(requests')].last = Len(messages)
        /\ SlicesInOrder' ]_vars

C23_Witness ==
    /\ pc = "returned"
    /\ Len(messages) >= 3
    /\ last_sent_index = Len(messages)
    /\ Len(DecideRequests) >= 3

\* C24: a call of ai_terminal that finds a handle and a counter above 20 asks
\* for the summary on the old handle, opens a conversation without a handle,
\* keeps the new handle and counts the current exchange from 0; a call that
\* finds a handle and a counter of at most 20 makes no such request and keeps
\* the handle
C24_ResetAboveLimit ==
    [][ pc = "idle" /\ LLM_RESPONSE_ID # NoHandle =>
          IF CONTEXT_TRACKER > MAX_CONTEXT_LENGTH
          THEN /\ requests' = requests \o << Request("summary", LLM_RESPONSE_ID, 0, 0),
                                             Request("reseed", NoHandle, 0, 0) >>
               /\ LLM_RESPONSE_ID' \notin {NoHandle, LLM_RESPONSE_ID}
               /\ CONTEXT_TRACKER' = 1
          ELSE /\ requests' = requests
               /\ LLM_RESPONSE_ID' = LLM_RESPONSE_ID
               /\ CONTEXT_TRACKER' = CONTEXT_TRACKER + 1 ]_vars

\* sub occurs in s
HasFragment(s, sub) ==
    \E i \in 0..Len(s) : i + Len(sub) <= Len(s) /\ SubSeq(s, i + 1, i + Len(sub)) = sub

\* the fragments the gate is to refuse: rm -rf, mkfs, shutdown, the fork bomb, and
\* a redirect to /dev/sda
NamedFragments == { <<"r","m"," ","-","r","f">>,
                    <<"m","k","f","s">>,
                    <<"s","h","u","t","d","o","w","n">>,
                    <<":","(",")","{"," ",":","|",":","&"," ","}",";",":">>,
                    <<">"," ","/","d","e","v","/","s","d","a">> }

\* C25: is_runtime_safe returns false for every command that contains one of
\* the named fragments, whatever stands before or after it
C25_FragmentsRefused ==
    probed = "command" /\ (\E f \in NamedFragments : HasFragment(probe, f))
       => verdict = FALSE

\* s ends with sub
EndsWith(s, sub) ==
    Len(sub) <= Len(s) /\ SubSeq(s, Len(s) - Len(sub) + 1, Len(s)) = sub

\* the positions of the separators / and \ in p
Separators(p) == { n \in 1..Len(p) : p[n] \in {"/", "\\"} }

\* the components of p that name a directory, and its last component
DirComponents(p) ==
    { SubSeq(p, a + 1, b - 1) :
        <<a, b>> \in { x \in (Separators(p) \cup {0}) \X Separators(p) :
                         /\ x[1] < x[2]
                         /\ \A n \in Separators(p) : ~(x[1] < n /\ n < x[2]) } }

LastComponent(p) ==
    LET a == IF Separators(p) = {} THEN 0
             ELSE CHOOSE n \in Separators(p) : \A m \in Separators(p) : m <= n
    IN  SubSeq(p, a + 1, Len(p))

CredentialDirs == { <<".","s","s","h">>, <<".","a","w","s">>, <<".","g","n","u","p","g">> }

KeySuffixes == { <<".","p","e","m">>, <<".","k","e","y">>, <<"i","d","_","r","s","a">>, <<"i","d","_","e","d","2","5","5","1","9">> }

\* the paths that are to count as sensitive, stated component by component
NamedSensitive(p) ==
    \/ DirComponents(p) \cap CredentialDirs # {}
    \/ \E e \in KeySuffixes : EndsWith(p, e)
    \/ LastComponent(p) = <<".","e","n","v">>

\* C26: the sensitive-path predicate is true for every path under a .ssh,
\* .aws or .gnupg directory, with / or \ as separator, for every path that
\* ends in .pem, .key, id_rsa or id_ed25519, and for a last component .env
C26_NamedPathsSensitive ==
    probed = "path" /\ NamedSensitive(probe) => verdict = TRUE

\* a path under .aws written with backslashes, and a path that is not named
C26_Witness ==
    /\ probed = "path"
    /\ probe = <<"C",":","\\","u","\\",".","a","w","s","\\","c","o","n","f","i","g">>
    /\ NamedSensitive(probe)
    /\ ~NamedSensitive(<<"/","h","/","x",".","s","s","h","/","i","d","_","r","s","a",".","p","u","b">>)
    /\ verdict = TRUE

\* the keys of a dict, in its order
Keys(d) == [n \in 1..Len(d) |-> d[n][1]]

\* seq without the later occurrences of an element
Dedup(seq) ==
    LET keep == { n \in 1..Len(seq) : \A m \in 1..(n - 1) : seq[m] # seq[n] }
    IN  [k \in 1..Cardinality(keep) |->
           seq[CHOOSE n \in keep : Cardinality({ m \in keep : m <= n }) = k]]

\* the targets a round works on: every command of an Inspect request, the
\* first ten paths of an Upload request that are not in the ledger
Targets(r) ==
    IF Action(r) = TagInspect THEN Commands(r)
    ELSE SelectSeq(UploadSlice(Commands(r)), LAMBDA path : path \notin uploaded_files)

\* C27: a round answered with Inspect or Upload appends exactly one
\* observation, keyed by the round's targets in request order, and the only
\* unsent message at a decision call is the one the round before appended, which
\* the call transmits; a round answered with Ask, Review, Execute or Block
\* appends nothing and ends the invocation, after which no call is made
C27_RoundsDoNotInterleave ==
    [][ /\ pc = "loop" /\ requests' # requests =>
             /\ Len(messages) = last_sent_index + 1
             /\ requests' = Append(requests, Request("decide", LLM_RESPONSE_ID,
                                                     Len(messages), Len(messages)))
             /\ \A r \in Parsed : r.reply = lastReply' /\ IsDict(r) =>
                  /\ Action(r) \in {TagInspect, TagUpload} =>
                        /\ Len(messages') = Len(messages) + 1
                        /\ SubSeq(messages', 1, Len(messages)) = messages
                        /\ messages'[Len(messages')].tag =
                              (IF Action(r) = TagInspect THEN "INSPECTION_RESULT"
                               ELSE "UPLOADED_FILES")
                        /\ Keys(messages'[Len(messages')].body) = Dedup(Targets(r))
                  /\ Action(r) \in {TagAsk, TagReview, TagExecute, TagBlock} =>
                        /\ messages' = messages
                        /\ pc' = "returned"
        /\ pc = "returned" => requests' = requests /\ messages' = messages ]_vars

\* two Inspect rounds with two targets each, both transmitted, and then a
\* response that ended the invocation
C27_Witness ==
    /\ pc = "returned"
    /\ last_sent_index = Len(messages)
    /\ Len(messages) >= 3
    /\ \A n \in 2..Len(messages) :
          messages[n].tag = "INSPECTION_RESULT" /\ Len(messages[n].body) = 2

\* the responses whose action proposes commands, one of which the gate refuses
UnsafeProposals ==
    { r \in Parsed :
        /\ IsDict(r)
        /\ Action(r) \in {TagInspect, TagReview, TagExecute}
        /\ \E n \in 1..Len(Commands(r)) : ~is_runtime_safe(Commands(r)[n]) }

\* the responses call_llm made up for a call that raised or a reply that is no JSON
FailClosed == { r \in Parsed : r.reply.kind \in {"transport_error", "bad_json"} }

\* C28: a round in which the call fails, a proposed command of an Inspect,
\* Review or Execute action is refused by the gate, or the twelfth round ends
\* without a terminal action, ends the invocation with an echo message
C28_FailuresAreTerminal ==
    [][ pc = "loop" /\ requests' # requests /\ pc' # "raised" =>
          \/ /\ lastReply' \notin { r.reply : r \in UnsafeProposals \cup FailClosed }
              /\ step + 1 < MAX_STEPS
          \/ /\ pc' = "returned"
              /\ ret' # <<>>
              /\ Head(ret') = "echo " ]_vars

\* the commands the decision service proposes, those the gate refuses and
\* those whose subprocess times out or cannot be started
ProposedCommands ==
    UNION { { Commands(r)[n] : n \in 1..Len(Commands(r)) } :
              r \in { q \in Parsed : IsDict(q) /\ Action(q) = TagInspect } }

RefusedCommands == { c \in ProposedCommands : ~is_runtime_safe(c) }

FailingProbes == { c \in ProposedCommands : SubprocessRun(c).raised }

\* the elements of seq from position n on
From(seq, n) == { seq[k] : k \in n..Len(seq) }

\* the round ends as a round that is not terminal: one more message, and the
\* next decision call unless this was the twelfth round
RoundGoesOn ==
    /\ Len(messages') = Len(messages) + 1
    /\ pc' = IF step + 1 = MAX_STEPS THEN "returned" ELSE "loop"

\* C29: in an Inspect round every probe that is due (not in the ledger, not
\* refused) is run, also after one that timed out or could not be started; the
\* entry of a failed probe is an ERROR string and the entry of any other probe
\* is not; in an Upload round every path that is due is validated, every valid
\* one is staged, also after a failed one, and a path has a failure marker
\* exactly if its own validation or staging failed; either round appends its
\* observation and goes on
C29_TargetFailuresAreLocal ==
    [][ pc = "loop" /\ requests' # requests =>
          \A r \in Parsed : r.reply = lastReply' /\ IsDict(r) =>
            /\ Action(r) = TagInspect =>
                  LET due == { c \in From(Commands(r), 1) :
                                 c \notin seen_inspects /\ c \notin RefusedCommands }
                      obs == messages'[Len(messages')].body
                  IN  /\ RoundGoesOn
                      /\ { q.cmd : q \in From(runs', Len(runs) + 1) } = due
                      /\ Len(runs') = Len(runs) + Cardinality(due)
                      /\ \A k \in 1..Len(obs) :
                            obs[k][1] \in due /\ obs[k][2] # <<>> =>
                              \/ Head(obs[k][2]) = "ERROR: " /\ obs[k][1] \in FailingProbes
                              \/ obs[k][2] = <<"ERROR: repeated inspection detected">>
                              \/ /\ Head(obs[k][2]) \notin
                                       {"ERROR: ", "ERROR: repeated inspection detected"}
                                 /\ obs[k][1] \notin FailingProbes
            /\ Action(r) = TagUpload =>
                  LET due == From(Targets(r), 1)
                      obs == messages'[Len(messages')].body
                      sent == From(staged', Len(staged) + 1)
                  IN  /\ RoundGoesOn
                      /\ sent = due \cap PassingPaths
                      /\ { obs[k][1] : k \in 1..Len(obs) } = due
                      /\ \A k \in 1..Len(obs) :
                            LET path == obs[k][1]
                                mark == obs[k][2]
                            IN  /\ path \notin PassingPaths <=> mark = <<"VALIDATION_FAILED">>
                                /\ path \in PassingPaths /\ path \notin uploaded_files'
                                       <=> mark = <<"UPLOAD_FAILED">>
                                /\ path \in uploaded_files' <=> mark = FileId(path) ]_vars

\* an Inspect round whose first probe timed out and whose second was run, and
\* an Upload round that could not stage its first path and refused its second
C29_Witness ==
    \/ /\ Len(messages) >= 2
       /\ messages[2].tag = "INSPECTION_RESULT"
       /\ Keys(messages[2].body) = <<CmdSleep, CmdLs>>
       /\ Head(messages[2].body[1][2]) = "ERROR: "
       /\ messages[2].body[2][2] = <<"a",".","l","o","g">>
       /\ Len(requests) >= 3
    \/ /\ Len(messages) >= 2
       /\ messages[2].tag = "UPLOADED_FILES"
       /\ messages[2].body = << <<PathLog, <<"UPLOAD_FAILED">> >>,
                                <<PathKey, <<"VALIDATION_FAILED">> >> >>
       /\ Len(requests) >= 3

\* C30: within one invocation no path is handed to client.files.create twice
C30_StagedAtMostOnce ==
    \A m, n \in 1..Len(staged) : m # n => staged[m] # staged[n]

\* C31: an Upload round works on the first ten paths of its request only: what
\* it stages, what it records and what it prints about a path concerns one of
\* those ten, and it stages at most ten files
C31_FirstTenOnly ==
    [][ pc = "loop" /\ requests' # requests =>
          \A r \in Parsed : r.reply = lastReply' /\ IsDict(r) /\ Action(r) = TagUpload =>
            LET n == IF Len(Commands(r)) < 10 THEN Len(Commands(r)) ELSE 10
                firstTen == { Commands(r)[k] : k \in 1..n }
                beyond == From(Commands(r), 11) \ firstTen
                obs == messages'[Len(messages')].body
            IN  /\ From(staged', Len(staged) + 1) \subseteq firstTen
                /\ Len(staged') - Len(staged) <= 10
                /\ { obs[k][1] : k \in 1..Len(obs) } \subseteq firstTen
                /\ \A k \in (Len(stdout) + 1)..Len(stdout') :
                      \A path \in beyond : ~HasFragment(stdout'[k], path) ]_vars

\* a request of eleven paths has been answered: its first path is staged and
\* recorded, its eleventh is not
C31_Witness ==
    /\ \E k \in 1..Len(messages) :
          /\ messages[k].tag = "UPLOADED_FILES"
          /\ Len(messages[k].body) = 3
          /\ DictHas(messages[k].body, PathLog)
          /\ ~DictHas(messages[k].body, PathNotes)
    /\ staged # <<>>

\* what the hook evaluates after ai_terminal returned: the lines it printed
\* and the text it returned
Evaluated == Join(NL, stdout \o <<ret>>)

\* C32: after an Execute action whose commands all passed the gate, the
\* interactive shell is in the directory its commands lead to
C32_ExecuteChangesTheShell ==
    Returned(TagExecute) /\ Unsafe(LastCommands) = {} =>
        ShellDirAfterEval(Evaluated) = DirAfter(StartDir, LastCommands)

\* the references to shell variables that occur in the snippets
VariableReferences == spawn_shell_env \cup AskAssigned \cup {"$TSPY", "$TSCTL"}

\* the variables the Ask snippet's command substitution reads without having
\* set them itself: those it expects in the environment
AskReads(snippet) ==
    { SubstitutedCommand(snippet)[n] : n \in 1..Len(SubstitutedCommand(snippet)) }
        \cap (VariableReferences \ AskAssigned)

\* C33: the two variables the Ask snippet reads to run the entry point, and
\* the two the hook reads, are the two spawn_shell exports
C33_SameTwoVariables ==
    Returned(TagAsk) =>
        /\ hook_env = spawn_shell_env
        /\ AskReads(ret) = spawn_shell_env

\* C34: a decision call that ends in the Block call_llm makes up, because the
\* remote call raised or because the reply is no JSON, leaves LLM_RESPONSE_ID
\* as it was
C34_FailedCallKeepsHandle ==
    [][ pc = "loop" /\ requests' # requests
          /\ lastReply'.kind \in {"transport_error", "bad_json"}
          => LLM_RESPONSE_ID' = LLM_RESPONSE_ID ]_vars

\* what was read from a stream, in the order read
ReadFrom(stream) ==
    LET got == SelectSeq(reads, LAMBDA x : x.from = stream)
    IN  [n \in 1..Len(got) |-> got[n].data]

\* C35: while the forwarding loop runs, what was written to the PTY is what
\* was read from the terminal, and what was written to standard output is what
\* was read from the PTY, byte for byte and in order
C35_RelayedFaithfully ==
    ppc \in {"top", "select", "events"} /\ running =>
        /\ to_pty = ReadFrom("stdin")
        /\ to_stdout = ReadFrom("pty")

\* C36: the observation of an Inspect round holds, for every command the round
\* ran, the output run_command captured for it
C36_OutputOfEveryRun ==
    [][ pc = "loop" /\ requests' # requests =>
          \A r \in Parsed : r.reply = lastReply' /\ IsDict(r) /\ Action(r) = TagInspect =>
            LET obs == messages'[Len(messages')].body IN
            \A q \in From(runs', Len(runs) + 1) :
               /\ DictHas(obs, q.cmd)
               /\ DictGet(obs, q.cmd) = run_command(q.cmd) ]_vars

\* the requests whose input is get_init_llm_message(): the system prompt and
\* OS_INFO (with the summary appended after a reset)
Seeding == {"init", "reseed"}

\* C37: a request sent with previous_response_id = None carries the system
\* prompt and OS_INFO; the messages of the loop, ORIGINAL_INTENT first, are
\* only sent with the handle of a conversation
C37_NewConversationsAreSeeded ==
    \A n \in 1..Len(requests) :
        requests[n].prev = NoHandle => requests[n].purpose \in Seeding

\* C38: whatever calls of ai_terminal an integrator has served, and whichever
\* of their remote calls failed, CONTEXT_TRACKER is at most 21
C38_CounterBounded ==
    CONTEXT_TRACKER \in 0..(MAX_CONTEXT_LENGTH + 1)

\* C39: with standard output on the terminal, once start_io_loop runs and no
\* SIGWINCH is awaiting its handler, the PTY has the size of the terminal
\* (with the defaults for zeros)
C39_NoResizeLost ==
    stdout_tty /\ ppc \in {"top", "select", "events"} /\ ~winch =>
        pty_size = Normalized(term_size)

\* C40: each line ai_terminal prints, evaluated by the shell, runs only
\* commands that pass the gate: the text from the decision service in it stays
\* inside the quotes of the echo
C40_PrintedLinesAreData ==
    [][ \A k \in (Len(stdout) + 1)..Len(stdout') :
          LET ran == ShellCommands(stdout'[k])
          IN  /\ Len(ran) = 1
              /\ \A n \in 1..Len(ran) : is_runtime_safe(ran[n]) ]_vars


============================================================================
